---- MODULE Spec2Model ----
(***************************************************************************)
(* The annotation store of Torch-Markup (Pinia store `annotation`):        *)
(* the live annotation list with its linear undo/redo history, the         *)
(* prefetch queue with its asynchronous batch prefetch, and the            *)
(* processed-image history used for backward navigation.                   *)
(*                                                                         *)
(* JavaScript runs the store on one event loop: a handler runs without     *)
(* preemption up to its next network await.  Every action below is one     *)
(* such run: either a call of a store function up to its first await, or   *)
(* the resumption of a suspended call when its request completes.          *)
(* Indices are 0-based as in the source; Seq[i + 1] is the source's a[i].  *)
(***************************************************************************)
EXTENDS Integers, Sequences, FiniteSets, TLC

VARIABLES
    currentImage,      \* id of currentImage.value, NoImage for null
    annotations,       \* annotations.value
    history,           \* history.value: snapshots of the annotation list
    historyIndex,      \* historyIndex.value, -1 when the history is empty
    isLoading,         \* isLoading.value
    imageQueue,        \* imageQueue.value: ids of the queued image records
    prefetchProgress,  \* prefetchProgress.value, 0..100
    isPrefetching,     \* isPrefetching.value
    isInitialLoad,     \* isInitialLoad.value
    prefetchedImages,  \* keys of the prefetchedImages Map (blob URLs)
    processedHistory,  \* processedHistory.value
    historyPosition,   \* historyPosition.value
    isInHistory,       \* isInHistory.value
    tasks,             \* suspended async calls, each awaiting one request
    srvDone,           \* server: images already saved or skipped
    now,               \* last value returned by Date.now()
    \* the store's categories, the shortcut store, the Annotate view
    categories,        \* categories.value: records with id and shortcut_key
    selectedCategory,  \* selectedCategory.value, NoCategory for null
    shortcuts,         \* shortcuts.value: the key binding of every action
    canvasMode,        \* canvasMode.value: "annotate" or "pan"
    message,           \* the ElMessage shown last, "" for none
    showHelp,          \* showHelp.value
    showShortcutSettings,     \* showShortcutSettings.value
    editingCategoryShortcut,  \* id of the category being edited, 0 for null
    \* the canvas component
    canvasImage,       \* the canvas's image.value: id of the loaded image
    loading,           \* images whose Image element has not fired onload yet
    scale,             \* scale.value
    offsetX,           \* offsetX.value
    offsetY,           \* offsetY.value
    isDrawing,         \* isDrawing.value
    isDragging,        \* isDragging.value
    isPanning,         \* isPanning.value
    spacePressed,      \* spacePressed.value
    startPoint,        \* startPoint.value
    currentBox,        \* currentBox.value, NoBox for null
    selectedAnnotation,  \* selectedAnnotation.value, NoAnnotation for null
    dragHandle,        \* type of dragHandle.value, NoHandle for null
    dragBox            \* dragBox.value, NoBox for null

storeVars == <<currentImage, annotations, history, historyIndex, isLoading,
               imageQueue, prefetchProgress, isPrefetching, isInitialLoad,
               prefetchedImages, processedHistory, historyPosition,
               isInHistory, tasks, srvDone, now>>

viewVars == <<categories, selectedCategory, shortcuts, canvasMode, message,
              showHelp, showShortcutSettings, editingCategoryShortcut>>

viewportVars == <<scale, offsetX, offsetY>>
pointerVars == <<isDrawing, isDragging, isPanning, spacePressed, startPoint,
                 currentBox, selectedAnnotation, dragHandle, dragBox>>
canvasVars == <<canvasImage, loading, viewportVars, pointerVars>>

uiVars == <<viewVars, canvasVars>>

vars == <<storeVars, uiVars>>

undoVars == <<annotations, history, historyIndex>>
navVars == <<processedHistory, historyPosition, isInHistory>>
prefetchVars == <<imageQueue, prefetchProgress, isPrefetching, isInitialLoad,
                  prefetchedImages>>

----------------------------------------------------------------------------
(* Bounds of the model *)

NumImages == 2
MaxAnnotations == 2
MaxBox == 2
MaxClock == 0
MaxTasks == 2
MaxHistLen == 3
MaxEdits == 4
MaxProcessed == 2
MaxUnderrun == 1

(* Constants of the program *)

PREFETCH_SIZE == 20
PREFETCH_THRESHOLD == 5
HISTORY_LIMIT == 50
PROCESSED_LIMIT == 50

NoImage == 0
ImageIds == 1..NumImages
Boxes == 1..MaxBox

----------------------------------------------------------------------------
(* Helpers *)

\* Date.now(): a millisecond clock, far above the server's row ids
DateNow(t) == NumImages + 1 + t

\* JSON.parse(JSON.stringify(list)): a fresh list with a copy of every element
DeepCopy(list) == [k \in 1..Len(list) |-> list[k]]

\* Array.prototype.findIndex(a => a.id === id), -1 when there is none
FindIndex(list, id) ==
    IF \E k \in 1..Len(list) : list[k].id = id
    THEN (CHOOSE k \in 1..Len(list) :
              /\ list[k].id = id
              /\ \A j \in 1..(k - 1) : list[j].id # id) - 1
    ELSE -1

\* Array.prototype.splice(index, 1)
Splice(list, index) ==
    SubSeq(list, 1, index) \o SubSeq(list, index + 2, Len(list))

canUndo == historyIndex > 0
canRedo == historyIndex < Len(history) - 1

\* the annotation list with its history, as one value
Live == [history |-> history, historyIndex |-> historyIndex,
         annotations |-> annotations]

\* undo() that also drops the snapshots it steps back over
UndoStateTruncating(s) ==
    IF s.historyIndex > 0
    THEN [history |-> SubSeq(s.history, 1, s.historyIndex),
          historyIndex |-> s.historyIndex - 1,
          annotations |-> DeepCopy(s.history[s.historyIndex])]
    ELSE s

\* undo() on such a value
UndoState(s) ==
    IF s.historyIndex > 0
    THEN [s EXCEPT !.historyIndex = s.historyIndex - 1,
                   !.annotations = DeepCopy(s.history[s.historyIndex])]
    ELSE s

\* redo() that moves the index but does not restore the list
RedoStateNoRestore(s) ==
    IF s.historyIndex < Len(s.history) - 1
    THEN [s EXCEPT !.historyIndex = s.historyIndex + 1]
    ELSE s

\* redo() on such a value
RedoState(s) ==
    IF s.historyIndex < Len(s.history) - 1
    THEN [s EXCEPT !.historyIndex = s.historyIndex + 1,
                   !.annotations = DeepCopy(s.history[s.historyIndex + 2])]
    ELSE s

\* saveHistory() without the truncation of the snapshots after the index
SaveHistoryNoTruncate(h, idx, anns) ==
    LET pushed == Append(h, DeepCopy(anns))
        at == Len(pushed) - 1
    IN IF Len(pushed) > HISTORY_LIMIT
       THEN [history |-> Tail(pushed), historyIndex |-> at - 1]
       ELSE [history |-> pushed, historyIndex |-> at]

\* saveHistory() without the eviction of the oldest snapshot
SaveHistoryNoEvict(h, idx, anns) ==
    LET cut == IF idx < Len(h) - 1 THEN SubSeq(h, 1, idx + 1) ELSE h
        pushed == Append(cut, DeepCopy(anns))
    IN [history |-> pushed, historyIndex |-> Len(pushed) - 1]

\* saveHistory() that evicts but leaves the index where the push put it
SaveHistoryStaleIndex(h, idx, anns) ==
    LET cut == IF idx < Len(h) - 1 THEN SubSeq(h, 1, idx + 1) ELSE h
        pushed == Append(cut, DeepCopy(anns))
        at == Len(pushed) - 1
    IN IF Len(pushed) > HISTORY_LIMIT
       THEN [history |-> Tail(pushed), historyIndex |-> at]
       ELSE [history |-> pushed, historyIndex |-> at]

\* saveHistory(): the history and index it leaves, given the list to snapshot
SaveHistory(h, idx, anns) ==
    LET cut == IF idx < Len(h) - 1 THEN SubSeq(h, 1, idx + 1) ELSE h
        pushed == Append(cut, DeepCopy(anns))
        at == Len(pushed) - 1
    IN IF Len(pushed) > HISTORY_LIMIT
       THEN [history |-> Tail(pushed), historyIndex |-> at - 1]
       ELSE [history |-> pushed, historyIndex |-> at]

----------------------------------------------------------------------------
(* The server, as the store's requests see it *)

\* annotations embedded in an image record of a batch or single-next response
EmbeddedAnnotations(id) ==
    IF id % 2 = 0 THEN <<[id |-> id, box |-> 1]>> ELSE <<>>

\* GET /images/{id}: the authoritative annotations, whatever was saved last
ServerAnnotations(id) == {<<>>, <<[id |-> id, box |-> 1]>>}

RECURSIVE Ascending(_)
Ascending(S) ==
    IF S = {} THEN <<>>
    ELSE LET m == CHOOSE x \in S : \A y \in S : x <= y
         IN <<m>> \o Ascending(S \ {m})

ServerPending == Ascending(ImageIds \ srvDone)

\* GET /images/next/{datasetId}/batch?count=N
ServerBatch(count) ==
    SubSeq(ServerPending, 1,
           IF Len(ServerPending) < count THEN Len(ServerPending) ELSE count)

\* GET /images/next/{datasetId}
ServerNext == IF ServerPending = <<>> THEN NoImage ELSE Head(ServerPending)

----------------------------------------------------------------------------
(* Suspended calls.  A call holds what it needs when it resumes: id, the  *)
(* image its request is for; imgs and alias, its local list of images and  *)
(* whether that list is the array imageQueue.value holds; i, its loop      *)
(* index; data, the payload (the annotations a save sent, the batch an     *)
(* initializePrefetch received).                                           *)

Task(kind, pc, id, imgs, alias, i, data) ==
    [kind |-> kind, pc |-> pc, id |-> id, imgs |-> imgs, alias |-> alias,
     i |-> i, data |-> data]

RemoveAt(s, k) == SubSeq(s, 1, k - 1) \o SubSeq(s, k + 1, Len(s))

\* imageQueue.value = <new array>: a call whose local `images` is the old
\* array keeps that array, with the contents it has now
Detach(ts, queue) ==
    [k \in 1..Len(ts) |->
        IF ts[k].alias THEN [ts[k] EXCEPT !.imgs = queue, !.alias = FALSE]
        ELSE ts[k]]

----------------------------------------------------------------------------
(* Numbers of the canvas geometry. A JavaScript number is modelled as the  *)
(* exact fraction n/d in lowest terms with d > 0; rounding of the          *)
(* floating-point operations is not modelled.                              *)

RECURSIVE Gcd(_, _)
Gcd(a, b) == IF b = 0 THEN a ELSE Gcd(b, a % b)

Abs(x) == IF x < 0 THEN -x ELSE x

Rat(n, d) ==
    LET g == Gcd(Abs(n), Abs(d))
        s == IF d < 0 THEN -1 ELSE 1
    IN [n |-> (s * n) \div g, d |-> (s * d) \div g]

Zero == [n |-> 0, d |-> 1]
One == [n |-> 1, d |-> 1]
Num(k) == [n |-> k, d |-> 1]

\* the operands are cancelled before they are multiplied, which keeps the
\* intermediate integers small
Lcm(a, b) == (a \div Gcd(a, b)) * b

Plus(a, b) ==
    LET l == Lcm(a.d, b.d)
    IN Rat(a.n * (l \div a.d) + b.n * (l \div b.d), l)
Minus(a, b) ==
    LET l == Lcm(a.d, b.d)
    IN Rat(a.n * (l \div a.d) - b.n * (l \div b.d), l)
Times(a, b) ==
    LET g1 == Gcd(Abs(a.n), b.d)
        g2 == Gcd(Abs(b.n), a.d)
    IN Rat((a.n \div g1) * (b.n \div g2), (a.d \div g2) * (b.d \div g1))
Over(a, b) == Times(a, Rat(b.d, b.n))
Neg(a) == [n |-> -a.n, d |-> a.d]
Less(a, b) == a.n * b.d < b.n * a.d
Leq(a, b) == a.n * b.d <= b.n * a.d
MathMin(a, b) == IF Less(b, a) THEN b ELSE a
MathMax(a, b) == IF Less(a, b) THEN b ELSE a
MathAbs(a) == [n |-> Abs(a.n), d |-> a.d]

----------------------------------------------------------------------------
(* Values of the view and of the canvas *)

NoCategory == [id |-> 0, shortcut_key |-> ""]
NoBox == [null |-> TRUE]
NoAnnotation == [id |-> -1]
NoHandle == ""

\* a key binding of the shortcut store
Binding(key, ctrl, shift) == [key |-> key, ctrl |-> ctrl, shift |-> shift]

\* DEFAULT_SHORTCUTS
DEFAULT_SHORTCUTS ==
    [save |-> Binding("s", TRUE, FALSE),
     skip |-> Binding("n", FALSE, FALSE),
     undo |-> Binding("z", TRUE, FALSE),
     redo |-> Binding("z", TRUE, TRUE),
     help |-> Binding("?", FALSE, FALSE)]

----------------------------------------------------------------------------
Init ==
    /\ currentImage = NoImage
    /\ annotations = <<>>
    /\ history = <<>>
    /\ historyIndex = -1
    /\ isLoading = FALSE
    /\ imageQueue = <<>>
    /\ prefetchProgress = 0
    /\ isPrefetching = FALSE
    /\ isInitialLoad = TRUE
    /\ prefetchedImages = {}
    /\ processedHistory = <<>>
    /\ historyPosition = -1
    /\ isInHistory = FALSE
    /\ tasks = <<>>
    /\ srvDone = {}
    /\ now = 0
    /\ categories = <<>>
    /\ selectedCategory = NoCategory
    /\ shortcuts = DEFAULT_SHORTCUTS
    /\ canvasMode = "pan"
    /\ message = ""
    /\ showHelp = FALSE
    /\ showShortcutSettings = FALSE
    /\ editingCategoryShortcut = 0
    /\ canvasImage = NoImage
    /\ loading = {}
    /\ scale = One
    /\ offsetX = Zero
    /\ offsetY = Zero
    /\ isDrawing = FALSE
    /\ isDragging = FALSE
    /\ isPanning = FALSE
    /\ spacePressed = FALSE
    /\ startPoint = [x |-> Zero, y |-> Zero]
    /\ currentBox = NoBox
    /\ selectedAnnotation = NoAnnotation
    /\ dragHandle = NoHandle
    /\ dragBox = NoBox

----------------------------------------------------------------------------
(* Annotation mutations and undo/redo *)

\* addAnnotation(annotation), called at clock value t
AddAnnotation(box, t) ==
    LET anns == Append(annotations, [id |-> DateNow(t), box |-> box])
        s == SaveHistory(history, historyIndex, anns)
    IN /\ annotations' = anns
       /\ history' = s.history
       /\ historyIndex' = s.historyIndex
       /\ now' = t
       /\ UNCHANGED <<currentImage, isLoading, prefetchVars, navVars, tasks,
                      srvDone>>

\* updateAnnotation(id, updates)
UpdateAnnotation(id, box) ==
    LET index == FindIndex(annotations, id)
        anns == [annotations EXCEPT ![index + 1].box = box]
        s == SaveHistory(history, historyIndex, anns)
    IN /\ IF index # -1
          THEN /\ annotations' = anns
               /\ history' = s.history
               /\ historyIndex' = s.historyIndex
          ELSE UNCHANGED undoVars
       /\ UNCHANGED <<currentImage, isLoading, prefetchVars, navVars, tasks,
                      srvDone, now>>

\* removeAnnotation(id)
RemoveAnnotation(id) ==
    LET index == FindIndex(annotations, id)
        anns == Splice(annotations, index)
        s == SaveHistory(history, historyIndex, anns)
    IN /\ IF index # -1
          THEN /\ annotations' = anns
               /\ history' = s.history
               /\ historyIndex' = s.historyIndex
          ELSE UNCHANGED undoVars
       /\ UNCHANGED <<currentImage, isLoading, prefetchVars, navVars, tasks,
                      srvDone, now>>

\* undo()
Undo ==
    /\ history' = UndoState(Live).history
    /\ historyIndex' = UndoState(Live).historyIndex
    /\ annotations' = UndoState(Live).annotations
    /\ UNCHANGED <<currentImage, isLoading, prefetchVars, navVars, tasks,
                   srvDone, now>>

\* redo()
Redo ==
    /\ history' = RedoState(Live).history
    /\ historyIndex' = RedoState(Live).historyIndex
    /\ annotations' = RedoState(Live).annotations
    /\ UNCHANGED <<currentImage, isLoading, prefetchVars, navVars, tasks,
                   srvDone, now>>

\* reset(), with clearPrefetchCache()
Reset ==
    /\ currentImage' = NoImage
    /\ annotations' = <<>>
    /\ history' = <<>>
    /\ historyIndex' = -1
    /\ imageQueue' = <<>>
    /\ isInitialLoad' = TRUE
    /\ processedHistory' = <<>>
    /\ historyPosition' = -1
    /\ isInHistory' = FALSE
    /\ prefetchedImages' = {}
    /\ tasks' = Detach(tasks, imageQueue)
    /\ UNCHANGED <<isLoading, prefetchProgress, isPrefetching, srvDone, now>>

----------------------------------------------------------------------------
(* fetchImage(imageId) *)

\* the call up to `await api.get(/images/{imageId})`
FetchImageCall(id) ==
    /\ isLoading' = TRUE
    /\ tasks' = Append(tasks, Task("fetchImage", "get", id, <<>>, FALSE, 0, <<>>))
    /\ UNCHANGED <<currentImage, undoVars, prefetchVars, navVars, srvDone, now>>

\* the response arrives: the rest of the try block, then finally
FetchImageDone(k, anns) ==
    /\ tasks[k].kind = "fetchImage"
    /\ LET s == SaveHistory(history, historyIndex, anns)
       IN /\ currentImage' = tasks[k].id
          /\ annotations' = anns
          /\ history' = s.history
          /\ historyIndex' = s.historyIndex
    /\ isLoading' = FALSE
    /\ tasks' = RemoveAt(tasks, k)
    /\ UNCHANGED <<prefetchVars, navVars, srvDone, now>>

\* the request fails: the await throws, finally runs, the caller sees the error
FetchImageFail(k) ==
    /\ tasks[k].kind = "fetchImage"
    /\ isLoading' = FALSE
    /\ tasks' = RemoveAt(tasks, k)
    /\ UNCHANGED <<currentImage, undoVars, prefetchVars, navVars, srvDone, now>>

----------------------------------------------------------------------------
(* Prefetch: initializePrefetch, getNextFromQueue, backgroundPrefetch,     *)
(* fetchNextImage                                                          *)

\* Math.round((k / n) * 100); k / 0 is Infinity in JavaScript
Infinity == 1000
RoundPercent(k, n) ==
    IF n = 0 THEN Infinity ELSE (200 * k + n) \div (2 * n)

\* The for loop of initializePrefetch / backgroundPrefetch from index i on,
\* up to its next request: prefetchImageFile returns at once for an image
\* whose blob is cached, so the loop runs on to the first image that is
\* not, or to the end of the list.
RECURSIVE PrefetchLoop(_, _, _, _)
PrefetchLoop(imgs, i, cached, progress) ==
    IF i >= Len(imgs)
    THEN [done |-> TRUE, i |-> i, progress |-> progress]
    ELSE IF imgs[i + 1] \in cached
         THEN PrefetchLoop(imgs, i + 1, cached,
                           RoundPercent(i + 1, Len(imgs)))
         ELSE [done |-> FALSE, i |-> i, progress |-> progress]

\* getNextFromQueue() on the queue q: what it returns and what it leaves
GetNextFromQueue(q) ==
    IF Len(q) = 0
    THEN [nextImage |-> NoImage, imageQueue |-> q,
          currentImage |-> currentImage, annotations |-> annotations,
          history |-> history, historyIndex |-> historyIndex]
    ELSE LET anns == EmbeddedAnnotations(Head(q))
             s == SaveHistory(history, historyIndex, anns)
         IN [nextImage |-> Head(q), imageQueue |-> Tail(q),
             currentImage |-> Head(q), annotations |-> anns,
             history |-> s.history, historyIndex |-> s.historyIndex]

\* the `images` array of a suspended prefetch: the queue itself while
\* imageQueue.value is still the array the call assigned to it
ImagesOf(t) == IF t.alias THEN imageQueue ELSE t.imgs

\* a backgroundPrefetch that looks at the queue length only
BackgroundStartsWhilePrefetching(q) == Len(q) < PREFETCH_THRESHOLD

\* the two guards of backgroundPrefetch(datasetId) on the queue q: whether
\* the call goes on to its batch request
BackgroundStarts(q) ==
    /\ ~isPrefetching
    /\ ~(Len(q) >= PREFETCH_THRESHOLD)

\* fetchNextImage(datasetId), up to its first request or to its return,
\* called where the suspended calls are ts
FetchNextImageFrom(ts) ==
    IF Len(imageQueue) = 0 /\ currentImage = NoImage
    THEN \* initializePrefetch up to `await fetchImageBatch`
         /\ isLoading' = TRUE
         /\ isInitialLoad' = TRUE
         /\ isPrefetching' = TRUE
         /\ prefetchProgress' = 0
         /\ tasks' = Append(ts, Task("initializePrefetch", "batch",
                                        NoImage, <<>>, FALSE, 0, <<>>))
         /\ UNCHANGED <<currentImage, undoVars, imageQueue, prefetchedImages>>
    ELSE LET g == GetNextFromQueue(imageQueue)
             \* backgroundPrefetch(datasetId) up to `await fetchImageBatch`
             starts == BackgroundStarts(g.imageQueue)
             bg == IF starts
                   THEN <<Task("backgroundPrefetch", "batch", NoImage, <<>>,
                               FALSE, 0, <<>>)>>
                   ELSE <<>>
             \* the queue was empty: GET /images/next/{datasetId}
             direct == IF g.nextImage = NoImage
                       THEN <<Task("fetchNextImage", "get", NoImage, <<>>,
                                   FALSE, 0, <<>>)>>
                       ELSE <<>>
         IN /\ imageQueue' = g.imageQueue
            /\ currentImage' = g.currentImage
            /\ annotations' = g.annotations
            /\ history' = g.history
            /\ historyIndex' = g.historyIndex
            /\ isPrefetching' = (isPrefetching \/ starts)
            /\ prefetchProgress' = IF starts THEN 0 ELSE prefetchProgress
            /\ isLoading' = (g.nextImage = NoImage)
            /\ tasks' = ts \o bg \o direct
            /\ UNCHANGED <<isInitialLoad, prefetchedImages>>

FetchNextImageCall ==
    /\ FetchNextImageFrom(tasks)
    /\ UNCHANGED <<navVars, srvDone, now>>

\* initializePrefetch after its loop: the flags, getNextFromQueue(), and the
\* finally block of fetchNextImage
InitializeFinish(k, queue, cached, progress, ts) ==
    LET g == GetNextFromQueue(queue)
    IN /\ isPrefetching' = FALSE
       /\ isInitialLoad' = FALSE
       /\ prefetchProgress' = progress
       /\ prefetchedImages' = cached
       /\ imageQueue' = g.imageQueue
       /\ currentImage' = g.currentImage
       /\ annotations' = g.annotations
       /\ history' = g.history
       /\ historyIndex' = g.historyIndex
       /\ isLoading' = FALSE
       /\ tasks' = RemoveAt(ts, k)
       /\ UNCHANGED <<navVars, srvDone, now>>

\* the batch request of initializePrefetch completes with `images`
\* (fetchImageBatch turns a failed request into an empty list)
InitializeBatchDone(k, images) ==
    /\ tasks[k].kind = "initializePrefetch"
    /\ tasks[k].pc = "batch"
    /\ IF Len(images) = 0
       THEN /\ isPrefetching' = FALSE
            /\ isInitialLoad' = FALSE
            /\ isLoading' = FALSE
            /\ tasks' = RemoveAt(tasks, k)
            /\ UNCHANGED <<currentImage, undoVars, imageQueue,
                           prefetchProgress, prefetchedImages, navVars,
                           srvDone, now>>
       ELSE LET loop == PrefetchLoop(images, 0, prefetchedImages,
                                     prefetchProgress)
                \* imageQueue.value = images
                others == Detach(tasks, imageQueue)
            IN IF loop.done
               THEN InitializeFinish(k, images, prefetchedImages,
                                     loop.progress, others)
               ELSE /\ imageQueue' = images
                    /\ prefetchProgress' = loop.progress
                    /\ tasks' = [others EXCEPT ![k] =
                                    Task("initializePrefetch", "blob",
                                         images[loop.i + 1], <<>>, TRUE,
                                         loop.i, images)]
                    /\ UNCHANGED <<currentImage, undoVars, isLoading,
                                   isPrefetching, isInitialLoad,
                                   prefetchedImages, navVars, srvDone, now>>

\* a blob request of initializePrefetch completes (ok) or fails (~ok):
\* the rest of prefetchImageFile, the progress update and the loop
InitializeBlobDone(k, ok) ==
    /\ tasks[k].kind = "initializePrefetch"
    /\ tasks[k].pc = "blob"
    /\ LET t == tasks[k]
           images == ImagesOf(t)
           cached == IF ok THEN prefetchedImages \cup {t.id}
                     ELSE prefetchedImages
           loop == PrefetchLoop(images, t.i + 1, cached,
                                RoundPercent(t.i + 1, Len(images)))
       IN IF loop.done
          THEN InitializeFinish(k, imageQueue, cached, loop.progress, tasks)
          ELSE /\ prefetchedImages' = cached
               /\ prefetchProgress' = loop.progress
               /\ tasks' = [tasks EXCEPT ![k].id = images[loop.i + 1],
                                         ![k].i = loop.i]
               /\ UNCHANGED <<currentImage, undoVars, isLoading, imageQueue,
                              isPrefetching, isInitialLoad, navVars, srvDone,
                              now>>

\* images.filter(img => !existingIds.has(img.id))
RECURSIVE FilterNew(_, _)
FilterNew(images, queue) ==
    IF images = <<>> THEN <<>>
    ELSE IF \E j \in 1..Len(queue) : queue[j] = Head(images)
         THEN FilterNew(Tail(images), queue)
         ELSE <<Head(images)>> \o FilterNew(Tail(images), queue)

\* a backgroundPrefetch that returns without clearing isPrefetching
BackgroundFinishKeepsFlag(k, newImages, cached, progress) ==
    /\ imageQueue' = imageQueue \o newImages
    /\ isPrefetching' = isPrefetching
    /\ prefetchProgress' = progress
    /\ prefetchedImages' = cached
    /\ tasks' = RemoveAt(tasks, k)
    /\ UNCHANGED <<currentImage, undoVars, isLoading, isInitialLoad, navVars,
                   srvDone, now>>

\* backgroundPrefetch after its loop: push(...newImages) and the flag
BackgroundFinish(k, newImages, cached, progress) ==
    /\ imageQueue' = imageQueue \o newImages
    /\ isPrefetching' = FALSE
    /\ prefetchProgress' = progress
    /\ prefetchedImages' = cached
    /\ tasks' = RemoveAt(tasks, k)
    /\ UNCHANGED <<currentImage, undoVars, isLoading, isInitialLoad, navVars,
                   srvDone, now>>

\* the batch request of backgroundPrefetch completes with `images`
BackgroundBatchDone(k, images) ==
    /\ tasks[k].kind = "backgroundPrefetch"
    /\ tasks[k].pc = "batch"
    /\ LET newImages == FilterNew(images, imageQueue)
           loop == PrefetchLoop(newImages, 0, prefetchedImages,
                                prefetchProgress)
       IN IF loop.done
          THEN BackgroundFinish(k, newImages, prefetchedImages, loop.progress)
          ELSE /\ prefetchProgress' = loop.progress
               /\ tasks' = [tasks EXCEPT ![k] =
                               Task("backgroundPrefetch", "blob",
                                    newImages[loop.i + 1], newImages, FALSE,
                                    loop.i, <<>>)]
               /\ UNCHANGED <<currentImage, undoVars, isLoading, imageQueue,
                              isPrefetching, isInitialLoad, prefetchedImages,
                              navVars, srvDone, now>>

\* a blob request of backgroundPrefetch completes (ok) or fails (~ok)
BackgroundBlobDone(k, ok) ==
    /\ tasks[k].kind = "backgroundPrefetch"
    /\ tasks[k].pc = "blob"
    /\ LET t == tasks[k]
           cached == IF ok THEN prefetchedImages \cup {t.id}
                     ELSE prefetchedImages
           loop == PrefetchLoop(t.imgs, t.i + 1, cached,
                                RoundPercent(t.i + 1, Len(t.imgs)))
       IN IF loop.done
          THEN BackgroundFinish(k, t.imgs, cached, loop.progress)
          ELSE /\ prefetchedImages' = cached
               /\ prefetchProgress' = loop.progress
               /\ tasks' = [tasks EXCEPT ![k].id = t.imgs[loop.i + 1],
                                         ![k].i = loop.i]
               /\ UNCHANGED <<currentImage, undoVars, isLoading, imageQueue,
                              isPrefetching, isInitialLoad, navVars, srvDone,
                              now>>

\* the single-image request of fetchNextImage completes with `image`
\* (NoImage: the response carries no image)
FetchNextDirectDone(k, image) ==
    /\ tasks[k].kind = "fetchNextImage"
    /\ IF image # NoImage
       THEN LET anns == EmbeddedAnnotations(image)
                s == SaveHistory(history, historyIndex, anns)
            IN /\ currentImage' = image
               /\ annotations' = anns
               /\ history' = s.history
               /\ historyIndex' = s.historyIndex
       ELSE /\ currentImage' = NoImage
            /\ annotations' = <<>>
            /\ UNCHANGED <<history, historyIndex>>
    /\ isLoading' = FALSE
    /\ tasks' = RemoveAt(tasks, k)
    /\ UNCHANGED <<prefetchVars, navVars, srvDone, now>>

\* the single-image request fails: the await throws and finally runs
FetchNextDirectFail(k) ==
    /\ tasks[k].kind = "fetchNextImage"
    /\ isLoading' = FALSE
    /\ tasks' = RemoveAt(tasks, k)
    /\ UNCHANGED <<currentImage, undoVars, prefetchVars, navVars, srvDone, now>>

----------------------------------------------------------------------------
(* Processed-image history: saveAnnotations, recordToProcessedHistory,     *)
(* goToPreviousImage, goToNextImage, exitHistoryMode                       *)

canGoPrevious == Len(processedHistory) > 0
canGoNext == isInHistory /\ historyPosition < Len(processedHistory) - 1

\* the navigation state as one value
Nav == [processedHistory |-> processedHistory,
        historyPosition |-> historyPosition, isInHistory |-> isInHistory]

\* annotations.value.map(a => ({category_id, x_center, ...})): no id
AnnotationsData(anns) == [k \in 1..Len(anns) |-> [box |-> anns[k].box]]

\* recordToProcessedHistory(image, imageAnnotations) on a navigation state
RecordToProcessedHistory(n, image, data) ==
    LET ph == n.processedHistory
        cut == IF n.isInHistory /\ n.historyPosition < Len(ph) - 1
               THEN SubSeq(ph, 1, n.historyPosition + 1)
               ELSE ph
        pushed == Append(cut, [id |-> image, annotations |-> DeepCopy(data)])
        at == Len(pushed) - 1
    IN IF Len(pushed) > PROCESSED_LIMIT
       THEN [processedHistory |-> Tail(pushed), historyPosition |-> at - 1,
             isInHistory |-> FALSE]
       ELSE [processedHistory |-> pushed, historyPosition |-> at,
             isInHistory |-> FALSE]

\* saveAnnotations(skip) up to `await api.post`
SaveAnnotationsCall ==
    IF currentImage = NoImage
    THEN UNCHANGED storeVars
    ELSE /\ tasks' = Append(tasks, Task("saveAnnotations", "post",
                                        currentImage, <<>>, FALSE, 0,
                                        AnnotationsData(annotations)))
         /\ UNCHANGED <<currentImage, undoVars, isLoading, prefetchVars,
                        navVars, srvDone, now>>

\* the save request succeeds: the server has the image as processed, and
\* the image that is current now is recorded unless the store is browsing
SaveAnnotationsDone(k) ==
    /\ tasks[k].kind = "saveAnnotations"
    /\ srvDone' = srvDone \cup {tasks[k].id}
    /\ LET r == IF ~isInHistory
                THEN RecordToProcessedHistory(Nav, currentImage, tasks[k].data)
                ELSE Nav
       IN /\ processedHistory' = r.processedHistory
          /\ historyPosition' = r.historyPosition
          /\ isInHistory' = r.isInHistory
    /\ tasks' = RemoveAt(tasks, k)
    /\ UNCHANGED <<currentImage, undoVars, isLoading, prefetchVars, now>>

\* the save request fails: the await throws
SaveAnnotationsFail(k) ==
    /\ tasks[k].kind = "saveAnnotations"
    /\ tasks' = RemoveAt(tasks, k)
    /\ UNCHANGED <<currentImage, undoVars, isLoading, prefetchVars, navVars,
                   srvDone, now>>

\* goToPreviousImage() past its guard and up to its request, on a
\* navigation state: the state it leaves, whether it issues the reload,
\* and for which image
GoToPreviousStart(n, cur, anns) ==
    LET ph == n.processedHistory
        push == /\ ~n.isInHistory
                /\ cur # NoImage
                /\ (Len(ph) = 0 \/ ph[Len(ph)].id # cur)
        ph1 == IF push
               THEN Append(ph, [id |-> cur, annotations |-> DeepCopy(anns)])
               ELSE ph
        pos == (IF push THEN Len(ph1) - 1 ELSE n.historyPosition) - 1
        load == pos + 1 \in DOMAIN ph1
    IN [processedHistory |-> ph1, historyPosition |-> pos,
        isInHistory |-> TRUE, load |-> load,
        target |-> IF load THEN ph1[pos + 1].id ELSE NoImage]

\* goToNextImage() past its guard and up to its request (or to its end when
\* there is no entry at the new position)
GoToNextStart(n) ==
    LET ph == n.processedHistory
        pos == n.historyPosition + 1
        load == pos + 1 \in DOMAIN ph
    IN [processedHistory |-> ph, historyPosition |-> pos,
        isInHistory |-> IF ~load /\ pos = Len(ph) - 1 THEN FALSE
                        ELSE n.isInHistory,
        load |-> load,
        target |-> IF load THEN ph[pos + 1].id ELSE NoImage]

\* the reload of goToPreviousImage / goToNextImage: the response replaces
\* the image and its annotations and restarts the undo history
Reloaded(image, anns) ==
    LET s == SaveHistory(<<>>, -1, anns)
    IN /\ currentImage' = image
       /\ annotations' = anns
       /\ history' = s.history
       /\ historyIndex' = s.historyIndex

\* goToPreviousImage() up to `await api.get`
GoToPreviousImageCall ==
    IF ~canGoPrevious
    THEN UNCHANGED storeVars
    ELSE LET r == GoToPreviousStart(Nav, currentImage, annotations)
         IN /\ processedHistory' = r.processedHistory
            /\ historyPosition' = r.historyPosition
            /\ isInHistory' = r.isInHistory
            /\ isLoading' = (isLoading \/ r.load)
            /\ tasks' = IF r.load
                        THEN Append(tasks, Task("goToPreviousImage", "get",
                                                r.target, <<>>, FALSE, 0, <<>>))
                        ELSE tasks
            /\ UNCHANGED <<currentImage, undoVars, prefetchVars, srvDone, now>>

\* the reload of goToPreviousImage arrives
GoToPreviousDone(k, anns) ==
    /\ tasks[k].kind = "goToPreviousImage"
    /\ tasks[k].id # NoImage
    /\ Reloaded(tasks[k].id, anns)
    /\ isLoading' = FALSE
    /\ tasks' = RemoveAt(tasks, k)
    /\ UNCHANGED <<prefetchVars, navVars, srvDone, now>>

\* the reload of goToPreviousImage fails: finally runs, the await throws
GoToPreviousFail(k) ==
    /\ tasks[k].kind = "goToPreviousImage"
    /\ isLoading' = FALSE
    /\ tasks' = RemoveAt(tasks, k)
    /\ UNCHANGED <<currentImage, undoVars, prefetchVars, navVars, srvDone, now>>

\* goToNextImage() up to `await api.get`
GoToNextImageCall ==
    IF ~canGoNext
    THEN UNCHANGED storeVars
    ELSE LET r == GoToNextStart(Nav)
         IN /\ processedHistory' = r.processedHistory
            /\ historyPosition' = r.historyPosition
            /\ isInHistory' = r.isInHistory
            /\ isLoading' = (isLoading \/ r.load)
            /\ tasks' = IF r.load
                        THEN Append(tasks, Task("goToNextImage", "get",
                                                r.target, <<>>, FALSE, 0, <<>>))
                        ELSE tasks
            /\ UNCHANGED <<currentImage, undoVars, prefetchVars, srvDone, now>>

\* the reload of goToNextImage arrives; browsing ends at the head
GoToNextDone(k, anns) ==
    /\ tasks[k].kind = "goToNextImage"
    /\ tasks[k].id # NoImage
    /\ Reloaded(tasks[k].id, anns)
    /\ isLoading' = FALSE
    /\ isInHistory' = IF historyPosition = Len(processedHistory) - 1
                      THEN FALSE ELSE isInHistory
    /\ tasks' = RemoveAt(tasks, k)
    /\ UNCHANGED <<prefetchVars, processedHistory, historyPosition, srvDone,
                   now>>

\* the reload of goToNextImage fails: finally runs, the await throws
GoToNextFail(k) ==
    /\ tasks[k].kind = "goToNextImage"
    /\ isLoading' = FALSE
    /\ tasks' = RemoveAt(tasks, k)
    /\ UNCHANGED <<currentImage, undoVars, prefetchVars, navVars, srvDone, now>>

\* exitHistoryMode()
ExitHistoryMode ==
    /\ isInHistory' = FALSE
    /\ historyPosition' = Len(processedHistory) - 1
    /\ UNCHANGED <<currentImage, undoVars, isLoading, prefetchVars,
                   processedHistory, tasks, srvDone, now>>

----------------------------------------------------------------------------
(* The store under any caller: every exported function may be called at    *)
(* any time, every request in flight may complete or fail at any time.     *)

\* a request of the prefetch pipeline completes; a batch request that
\* fails gives the empty list (fetchImageBatch)
PrefetchResponse(k, blobs) ==
    \/ /\ InitializeBatchDone(k, ServerBatch(PREFETCH_SIZE))
       /\ UNCHANGED uiVars
    \/ /\ InitializeBatchDone(k, <<>>)
       /\ UNCHANGED uiVars
    \/ /\ \E ok \in blobs : InitializeBlobDone(k, ok)
       /\ UNCHANGED uiVars
    \/ /\ BackgroundBatchDone(k, ServerBatch(PREFETCH_SIZE))
       /\ UNCHANGED uiVars
    \/ /\ BackgroundBatchDone(k, <<>>)
       /\ UNCHANGED uiVars
    \/ /\ \E ok \in blobs : BackgroundBlobDone(k, ok)
       /\ UNCHANGED uiVars
    \/ /\ FetchNextDirectDone(k, ServerNext)
       /\ UNCHANGED uiVars
    \/ /\ FetchNextDirectFail(k)
       /\ UNCHANGED uiVars

\* a save request completes or fails
SaveResponse(k) ==
    \/ /\ SaveAnnotationsDone(k)
       /\ UNCHANGED uiVars
    \/ /\ SaveAnnotationsFail(k)
       /\ UNCHANGED uiVars

\* the request of fetchImage completes or fails
FetchImageResponse(k) ==
    \/ /\ \E a \in ServerAnnotations(tasks[k].id) : FetchImageDone(k, a)
       /\ UNCHANGED uiVars
    \/ /\ FetchImageFail(k)
       /\ UNCHANGED uiVars

\* the reload of goToPreviousImage / goToNextImage completes or fails
ReloadResponse(k) ==
    \/ /\ \E a \in ServerAnnotations(tasks[k].id) : GoToPreviousDone(k, a)
       /\ UNCHANGED uiVars
    \/ /\ GoToPreviousFail(k)
       /\ UNCHANGED uiVars
    \/ /\ \E a \in ServerAnnotations(tasks[k].id) : GoToNextDone(k, a)
       /\ UNCHANGED uiVars
    \/ /\ GoToNextFail(k)
       /\ UNCHANGED uiVars

\* a request in flight completes or fails
RequestCompletes(k) ==
    \/ PrefetchResponse(k, BOOLEAN)
    \/ SaveResponse(k)
    \/ FetchImageResponse(k)
    \/ ReloadResponse(k)

\* calls of fetchNextImage and saveAnnotations
AdvanceCalls ==
    \/ /\ Len(tasks) < MaxTasks
       /\ Len(history) < MaxHistLen
       /\ FetchNextImageCall
       /\ UNCHANGED uiVars
    \/ /\ Len(tasks) < MaxTasks
       /\ Len(processedHistory) < MaxProcessed
       /\ SaveAnnotationsCall
       /\ UNCHANGED uiVars

\* calls of fetchImage
FetchImageCalls ==
    /\ Len(tasks) < MaxTasks
    /\ Len(history) < MaxHistLen
    /\ \E id \in ImageIds : FetchImageCall(id)

\* calls of addAnnotation, updateAnnotation and removeAnnotation
EditCalls ==
    \/ /\ Len(history) < MaxHistLen
       /\ Len(annotations) < MaxAnnotations
       /\ \E b \in Boxes, t \in now..MaxClock : AddAnnotation(b, t)
       /\ UNCHANGED uiVars
    \/ /\ Len(history) < MaxHistLen
       /\ \E k \in 1..Len(annotations), b \in Boxes :
              UpdateAnnotation(annotations[k].id, b)
       /\ UNCHANGED uiVars
    \/ /\ Len(history) < MaxHistLen
       /\ \E id \in {annotations[k].id : k \in 1..Len(annotations)} \cup {0} :
              RemoveAnnotation(id)
       /\ UNCHANGED uiVars

\* calls of goToPreviousImage, goToNextImage and exitHistoryMode
NavigationCalls ==
    \/ /\ Len(tasks) < MaxTasks
       /\ Len(processedHistory) <= MaxProcessed
       /\ historyPosition >= -MaxUnderrun
       /\ GoToPreviousImageCall
       /\ UNCHANGED uiVars
    \/ /\ Len(tasks) < MaxTasks
       /\ GoToNextImageCall
       /\ UNCHANGED uiVars
    \/ /\ ExitHistoryMode
       /\ UNCHANGED uiVars

Next ==
    \/ AdvanceCalls
    \/ FetchImageCalls
    \/ EditCalls
    \/ /\ Undo
       /\ UNCHANGED uiVars
    \/ /\ Redo
       /\ UNCHANGED uiVars
    \/ /\ Reset
       /\ UNCHANGED uiVars
    \/ NavigationCalls
    \/ \E k \in 1..Len(tasks) : RequestCompletes(k)

Spec == Init /\ [][Next]_vars

----------------------------------------------------------------------------
(* The prefetch pipeline on its own: images are fetched, saved and         *)
(* advanced over, and the view may be left (reset) at any time.            *)

NextPrefetch ==
    \/ AdvanceCalls
    \/ /\ Reset
       /\ UNCHANGED uiVars
    \/ \E k \in 1..Len(tasks) :
           \/ PrefetchResponse(k, BOOLEAN)
           \/ SaveResponse(k)

SpecPrefetch == Init /\ [][NextPrefetch]_vars

----------------------------------------------------------------------------
(* Navigation on its own: images are fetched, saved, advanced over and     *)
(* browsed backwards and forwards; every blob request succeeds.            *)

NextNavigation ==
    \/ AdvanceCalls
    \/ NavigationCalls
    \/ \E k \in 1..Len(tasks) :
           \/ PrefetchResponse(k, {TRUE})
           \/ SaveResponse(k)
           \/ ReloadResponse(k)

SpecNavigation == Init /\ [][NextNavigation]_vars

----------------------------------------------------------------------------
(* One call at a time: the caller starts a store function only when no     *)
(* request is in flight (fetchNextImage itself still starts the            *)
(* background prefetch next to its own request).                           *)

NextSequential ==
    \/ /\ tasks = <<>>
       /\ AdvanceCalls
    \/ /\ tasks = <<>>
       /\ NavigationCalls
    \/ \E k \in 1..Len(tasks) :
           \/ PrefetchResponse(k, BOOLEAN)
           \/ SaveResponse(k)
           \/ ReloadResponse(k)

SpecSequential == Init /\ [][NextSequential]_vars

----------------------------------------------------------------------------
(* The annotation list and its history on their own: one image loaded by   *)
(* fetchImage and edited in every way, with undo, redo and reset; one       *)
(* call at a time, all within one tick of the clock.                       *)

NextHistory ==
    \/ /\ Len(history) < MaxEdits
       /\ Len(annotations) < MaxAnnotations
       /\ \E b \in Boxes : AddAnnotation(b, now)
       /\ UNCHANGED uiVars
    \/ /\ Len(history) < MaxEdits
       /\ \E k \in 1..Len(annotations), b \in Boxes :
              UpdateAnnotation(annotations[k].id, b)
       /\ UNCHANGED uiVars
    \/ /\ Len(history) < MaxEdits
       /\ \E id \in {annotations[k].id : k \in 1..Len(annotations)} \cup {0} :
              RemoveAnnotation(id)
       /\ UNCHANGED uiVars
    \/ /\ Undo
       /\ UNCHANGED uiVars
    \/ /\ Redo
       /\ UNCHANGED uiVars
    \/ /\ Reset
       /\ UNCHANGED uiVars
    \/ /\ Len(history) < MaxEdits
       /\ tasks = <<>>
       /\ FetchImageCall(1)
       /\ UNCHANGED uiVars
    \/ \E k \in 1..Len(tasks) : FetchImageResponse(k)

SpecHistory == Init /\ [][NextHistory]_vars

----------------------------------------------------------------------------
(* One long editing session: an image is loaded by fetchImage, its box may  *)
(* be redrawn, and then boxes are drawn and removed in turn, with undo and  *)
(* redo at any point, which takes the history past HISTORY_LIMIT.          *)

NextLongSession ==
    \/ /\ history = <<>>
       /\ tasks = <<>>
       /\ FetchImageCall(1)
       /\ UNCHANGED uiVars
    \/ \E k \in 1..Len(tasks) : FetchImageResponse(k)
    \/ /\ historyIndex = 0
       /\ \E k \in 1..Len(annotations), b \in Boxes :
              UpdateAnnotation(annotations[k].id, b)
       /\ UNCHANGED uiVars
    \/ /\ annotations = <<>>
       /\ tasks = <<>>
       /\ AddAnnotation(1, now)
       /\ UNCHANGED uiVars
    \/ /\ \E k \in 1..Len(annotations) : RemoveAnnotation(annotations[k].id)
       /\ UNCHANGED uiVars
    \/ /\ Undo
       /\ UNCHANGED uiVars
    \/ /\ Redo
       /\ UNCHANGED uiVars
    \/ /\ Reset
       /\ UNCHANGED uiVars

SpecLongSession == Init /\ [][NextLongSession]_vars

----------------------------------------------------------------------------
(* Steps of the store, named for the properties below *)

\* a step in which an image becomes the current image
ImageLoaded ==
    \E k \in 1..Len(tasks) :
        \E a \in ServerAnnotations(tasks[k].id) : FetchImageDone(k, a)

\* a call of addAnnotation, or of updateAnnotation / removeAnnotation with
\* the id of an annotation of the list
MutationApplied ==
    \/ \E b \in Boxes, t \in now..MaxClock : AddAnnotation(b, t)
    \/ \E k \in 1..Len(annotations), b \in Boxes :
           UpdateAnnotation(annotations[k].id, b)
    \/ \E k \in 1..Len(annotations) : RemoveAnnotation(annotations[k].id)

\* undo() called n times; a call that changes nothing ends the run, as every
\* later call then changes nothing either
RECURSIVE UndoTimes(_, _)
UndoTimes(s, n) ==
    IF n = 0 THEN s
    ELSE LET t == UndoState(s)
         IN IF t = s THEN s ELSE UndoTimes(t, n - 1)

\* redo() called n times
RECURSIVE RedoTimes(_, _)
RedoTimes(s, n) ==
    IF n = 0 THEN s
    ELSE LET t == RedoState(s)
         IN IF t = s THEN s ELSE RedoTimes(t, n - 1)

MaxRoundTrip == 3

\* the numbers of undo/redo calls tried: the small ones, and those that
\* reach and overshoot the oldest snapshot
RoundTripCounts(s) ==
    0..MaxRoundTrip \cup {Len(s.history) - 1, Len(s.history)}

----------------------------------------------------------------------------
(* C3: after an image load followed by any number of mutations, n calls of *)
(* undo() followed by n calls of redo() give back the annotation list as   *)
(* it was after the last mutation.                                         *)
C3_UndoRedoRoundTrip ==
    [][(MutationApplied \/ ImageLoaded)
         => \A n \in RoundTripCounts(Live') :
               RedoTimes(UndoTimes(Live', n), n).annotations = annotations']_vars

C3_Witness ==
    /\ currentImage # NoImage
    /\ Len(history) >= 3
    /\ historyIndex = Len(history) - 1
    /\ annotations # <<>>
    /\ history[Len(history) - 1] # history[Len(history)]

(* C4: a mutation made while the index is not at the last snapshot drops   *)
(* the snapshots after the index, appends the new one, and leaves the      *)
(* index at the last snapshot, so that redo is unavailable and redo()      *)
(* changes nothing.                                                        *)
C4_TruncationOnMutation ==
    [][(historyIndex < Len(history) - 1 /\ MutationApplied)
         => /\ history' = Append(SubSeq(history, 1, historyIndex + 1),
                                 annotations')
            /\ historyIndex' = Len(history') - 1
            /\ ~canRedo'
            /\ RedoState(Live') = Live']_vars

C4_Witness ==
    /\ historyIndex >= 0
    /\ historyIndex < Len(history) - 1
    /\ Len(history) >= 3

C6_UndoRedoKeepHistory ==
    [][/\ Undo => /\ history' = history
                  /\ IF canUndo
                     THEN /\ historyIndex' = historyIndex - 1
                          /\ historyIndex' + 1 \in DOMAIN history
                          /\ annotations' = history[historyIndex' + 1]
                     ELSE /\ historyIndex' = historyIndex
                          /\ annotations' = annotations
       /\ Redo => /\ history' = history
                  /\ IF canRedo
                     THEN /\ historyIndex' = historyIndex + 1
                          /\ historyIndex' + 1 \in DOMAIN history
                          /\ annotations' = history[historyIndex' + 1]
                     ELSE /\ historyIndex' = historyIndex
                          /\ annotations' = annotations]_vars

C6_Witness ==
    /\ Len(history) >= 3
    /\ historyIndex = 0
    /\ annotations = history[1]
    /\ annotations # history[2]

(* C7: the history never holds more than 50 snapshots; a push onto a full  *)
(* history evicts the oldest snapshot and leaves the index on the          *)
(* snapshot just pushed.                                                   *)
C7_HistoryBounded ==
    /\ [](Len(history) <= HISTORY_LIMIT)
    /\ [][(Len(history) = HISTORY_LIMIT /\ historyIndex = HISTORY_LIMIT - 1
             /\ (MutationApplied \/ ImageLoaded))
            => /\ history' = Append(Tail(history), annotations')
               /\ historyIndex' = HISTORY_LIMIT - 1]_vars

\* the state after a push onto a full history: the load's snapshot, which
\* came before the redrawn one, is gone
C7_Witness ==
    /\ Len(history) = HISTORY_LIMIT
    /\ historyIndex = HISTORY_LIMIT - 1
    /\ annotations = history[HISTORY_LIMIT]
    /\ history[1] = <<[id |-> 1, box |-> 2]>>

----------------------------------------------------------------------------
(* C1: the live annotation list is the snapshot at the history index.      *)
C1_LiveIsSnapshot ==
    Len(history) > 0 =>
        /\ historyIndex + 1 \in DOMAIN history
        /\ annotations = history[historyIndex + 1]

(* C2: whenever another image becomes the current image, the annotation    *)
(* list is that image's and the history is exactly one snapshot of it, so  *)
(* that undo is unavailable.                                               *)
C2_LoadResetsHistory ==
    [][(currentImage' # currentImage /\ currentImage' # NoImage)
         => /\ history' = <<annotations'>>
            /\ historyIndex' = 0
            /\ ~canUndo']_vars

(* C8: goToPrevious() followed at once by goToNext(), both reloads         *)
(* succeeding, ends on the image that was current before, with browsing    *)
(* off.                                                                    *)
C8_PreviousThenNext ==
    (canGoPrevious /\ ~isInHistory /\ tasks = <<>>) =>
        LET p == GoToPreviousStart(Nav, currentImage, annotations)
            cur1 == IF p.load THEN p.target ELSE currentImage
            go == p.isInHistory
                    /\ p.historyPosition < Len(p.processedHistory) - 1
            n == IF go THEN GoToNextStart(p) ELSE p
            cur2 == IF go /\ n.load THEN n.target ELSE cur1
            browsing == IF go /\ n.load
                        THEN ~(n.historyPosition = Len(n.processedHistory) - 1)
                        ELSE n.isInHistory
        IN cur2 = currentImage /\ ~browsing

(* C9: at most one batch prefetch (initializePrefetch or                   *)
(* backgroundPrefetch) is in progress at any time.                         *)
PrefetchesInProgress ==
    {k \in 1..Len(tasks) :
        tasks[k].kind \in {"initializePrefetch", "backgroundPrefetch"}}

C9_SinglePrefetch == Cardinality(PrefetchesInProgress) <= 1

(* C10: when initializePrefetch completes for a batch of N >= 1 images,    *)
(* the first image of the batch is the current image and the queue holds   *)
(* the other N - 1 in the order of the batch.                              *)
InitializeCompletes(k, batch) ==
    /\ tasks[k].kind = "initializePrefetch"
    /\ Len(tasks') = Len(tasks) - 1
    /\ \/ /\ tasks[k].pc = "blob"
          /\ tasks[k].data = batch
          /\ \E ok \in BOOLEAN : InitializeBlobDone(k, ok)
       \/ /\ tasks[k].pc = "batch"
          /\ InitializeBatchDone(k, batch)

C10_InitializeShowsFirst ==
    [][\A k \in 1..Len(tasks) :
         tasks[k].kind = "initializePrefetch" =>
           LET batch == IF tasks[k].pc = "blob" THEN tasks[k].data
                        ELSE ServerBatch(PREFETCH_SIZE)
           IN (Len(batch) >= 1 /\ InitializeCompletes(k, batch))
                => /\ currentImage' = batch[1]
                   /\ imageQueue' = Tail(batch)]_vars

----------------------------------------------------------------------------
(* C11: while a batch is prefetched the progress never decreases from one  *)
(* completed item to the next, and it is 100 exactly when the last item    *)
(* of the batch has completed, for every batch size from 1 to              *)
(* PREFETCH_SIZE.                                                          *)

\* the batch a suspended prefetch received: the whole list of images it
\* set out to load
BatchOf(t) == IF t.kind = "initializePrefetch" THEN t.data ELSE t.imgs

\* the blob request of prefetch k returns: an item of its batch completes
ItemCompletes(k) ==
    /\ tasks[k].kind \in {"initializePrefetch", "backgroundPrefetch"}
    /\ tasks[k].pc = "blob"
    /\ \E ok \in BOOLEAN :
           InitializeBlobDone(k, ok) \/ BackgroundBlobDone(k, ok)

\* the step in which prefetch k leaves its loop having gone through its
\* whole batch
LastItemCompletes(k) ==
    /\ ItemCompletes(k)
    /\ Len(tasks') = Len(tasks) - 1
    /\ Len(ImagesOf(tasks[k])) = Len(BatchOf(tasks[k]))

C11_ProgressMonotone ==
    /\ \A n \in 1..PREFETCH_SIZE : \A j \in 1..n :
           /\ j < n => RoundPercent(j, n) <= RoundPercent(j + 1, n)
           /\ RoundPercent(j, n) = 100 <=> j = n
    /\ [][\A k \in 1..Len(tasks) :
            ItemCompletes(k) =>
                /\ prefetchProgress' >= prefetchProgress
                /\ prefetchProgress' = 100 <=> LastItemCompletes(k)]_vars

----------------------------------------------------------------------------
(* C13: a blob request that fails does not abort the batch: the images     *)
(* after it are still attempted, and when the loop ends the progress is    *)
(* 100, isPrefetching is cleared, and the first image of the batch is      *)
(* current (initialize) or the new images are appended to the queue        *)
(* (background).                                                           *)

\* the blob request of prefetch k fails
BlobFails(k) ==
    /\ tasks[k].kind \in {"initializePrefetch", "backgroundPrefetch"}
    /\ tasks[k].pc = "blob"
    /\ InitializeBlobDone(k, FALSE) \/ BackgroundBlobDone(k, FALSE)

\* prefetch k goes on to request a later image of its batch
AttemptsLater(k) ==
    /\ Len(tasks') = Len(tasks)
    /\ tasks'[k].kind = tasks[k].kind
    /\ tasks'[k].pc = "blob"
    /\ tasks'[k].i > tasks[k].i
    /\ tasks'[k].i < Len(BatchOf(tasks[k]))

\* prefetch k has gone through its batch and hands it over
BatchCompletes(k) ==
    /\ Len(tasks') = Len(tasks) - 1
    /\ prefetchProgress' = 100
    /\ isPrefetching' = FALSE
    /\ tasks[k].kind = "initializePrefetch" =>
           currentImage' = BatchOf(tasks[k])[1]
    /\ tasks[k].kind = "backgroundPrefetch" =>
           imageQueue' = imageQueue \o BatchOf(tasks[k])

C13_BlobFailureTolerated ==
    [][\A k \in 1..Len(tasks) :
         BlobFails(k) => AttemptsLater(k) \/ BatchCompletes(k)]_vars

----------------------------------------------------------------------------
(* The canvas component. The view renders it while an image is current and *)
(* the store is not loading; its handlers run on pointer, wheel and key     *)
(* events, and its add / update / delete events call the store.             *)

\* container.clientWidth x container.clientHeight when fitToContainer runs
ContainerSizes == {<<800, 600>>, <<200, 150>>}

\* img.width x img.height of the image file of every image
ImageSize(id) ==
    CASE id = 1 -> [width |-> 1920, height |-> 1080]
      [] id = 2 -> [width |-> 40, height |-> 30]
      [] OTHER -> [width |-> 8000, height |-> 6000]

\* the canvas is in the page: v-else of isLoading and of !currentImage
Shown == ~isLoading /\ currentImage # NoImage

\* image.value.width, image.value.height
imgW == Num(ImageSize(canvasImage).width)
imgH == Num(ImageSize(canvasImage).height)

\* Vue after a step of the store: the component is unmounted, mounted
\* (fresh refs, onMounted calls loadImage) or, when props.imageId changed,
\* its watcher runs resetView() and loadImage()
Render ==
    IF ~Shown'
    THEN /\ canvasImage' = NoImage
         /\ loading' = {}
         /\ scale' = One
         /\ offsetX' = Zero
         /\ offsetY' = Zero
         /\ isDrawing' = FALSE
         /\ isDragging' = FALSE
         /\ isPanning' = FALSE
         /\ spacePressed' = FALSE
         /\ startPoint' = [x |-> Zero, y |-> Zero]
         /\ currentBox' = NoBox
         /\ selectedAnnotation' = NoAnnotation
         /\ dragHandle' = NoHandle
         /\ dragBox' = NoBox
    ELSE IF ~Shown
    THEN /\ canvasImage' = NoImage
         /\ loading' = {currentImage'}
         /\ UNCHANGED <<viewportVars, pointerVars>>
    ELSE IF currentImage' # currentImage
    THEN /\ scale' = One
         /\ offsetX' = Zero
         /\ offsetY' = Zero
         /\ selectedAnnotation' = NoAnnotation
         /\ loading' = loading \cup {currentImage'}
         /\ UNCHANGED <<canvasImage, isDrawing, isDragging, isPanning,
                        spacePressed, startPoint, currentBox, dragHandle,
                        dragBox>>
    ELSE UNCHANGED canvasVars

\* fitToContainer() for the image img in a container of cw x ch
FitToContainer(img, cw, ch) ==
    LET w == Num(ImageSize(img).width)
        h == Num(ImageSize(img).height)
        scaleX == Over(Num(cw), w)
        scaleY == Over(Num(ch), h)
        fit == Times(MathMin(scaleX, scaleY), Rat(9, 10))
    IN /\ scale' = fit
       /\ offsetX' = Over(Minus(Num(cw), Times(w, fit)), Num(2))
       /\ offsetY' = Over(Minus(Num(ch), Times(h, fit)), Num(2))

\* img.onload of an image requested by loadImage()
ImageOnload(id, cw, ch) ==
    /\ Shown
    /\ id \in loading
    /\ canvasImage' = id
    /\ loading' = loading \ {id}
    /\ FitToContainer(id, cw, ch)
    /\ UNCHANGED pointerVars
    /\ UNCHANGED <<storeVars, viewVars>>

\* fitToView() of the view: the canvas's fitToContainer()
FitToView(cw, ch) ==
    /\ Shown
    /\ IF canvasImage # NoImage
       THEN FitToContainer(canvasImage, cw, ch)
       ELSE UNCHANGED viewportVars
    /\ UNCHANGED <<canvasImage, loading, pointerVars>>
    /\ UNCHANGED <<storeVars, viewVars>>

\* screenToImage(screenX, screenY)
ScreenToImage(sx, sy) ==
    [x |-> Over(Minus(sx, offsetX), scale),
     y |-> Over(Minus(sy, offsetY), scale)]

\* a handleWheel that recomputes the offsets with the unclamped product
HandleWheelUnclamped(sx, sy, down) ==
    LET zoomFactor == IF down THEN Rat(9, 10) ELSE Rat(11, 10)
        product == Times(scale, zoomFactor)
        imgPoint == [x |-> Over(Minus(sx, offsetX), scale),
                     y |-> Over(Minus(sy, offsetY), scale)]
    IN /\ ~isLoading /\ currentImage # NoImage
       /\ scale' = MathMin(MathMax(product, Rat(1, 10)), Num(10))
       /\ offsetX' = Minus(sx, Times(imgPoint.x, product))
       /\ offsetY' = Minus(sy, Times(imgPoint.y, product))
       /\ UNCHANGED <<canvasImage, loading, pointerVars>>
       /\ UNCHANGED <<storeVars, viewVars>>

\* handleWheel(e) at the screen point (sx, sy); down is e.deltaY > 0
MinScale == Rat(1, 10)
MaxScale == Num(10)
HandleWheel(sx, sy, down) ==
    LET zoomFactor == IF down THEN Rat(9, 10) ELSE Rat(11, 10)
        newScale == MathMin(MathMax(Times(scale, zoomFactor), MinScale),
                            MaxScale)
        imgPoint == ScreenToImage(sx, sy)
    IN /\ Shown
       /\ scale' = newScale
       /\ offsetX' = Minus(sx, Times(imgPoint.x, newScale))
       /\ offsetY' = Minus(sy, Times(imgPoint.y, newScale))
       /\ UNCHANGED <<canvasImage, loading, pointerVars>>
       /\ UNCHANGED <<storeVars, viewVars>>

\* the pixel box of an annotation on the loaded image
PixelBox(ann) ==
    [x |-> Times(Minus(ann.box.x_center, Over(ann.box.width, Num(2))), imgW),
     y |-> Times(Minus(ann.box.y_center, Over(ann.box.height, Num(2))), imgH),
     w |-> Times(ann.box.width, imgW),
     h |-> Times(ann.box.height, imgH)]

\* getAnnotationAt(screenX, screenY): the last annotation of the list
\* whose box holds the image point
GetAnnotationAt(sx, sy) ==
    LET p == ScreenToImage(sx, sy)
        Holds(k) == LET b == PixelBox(annotations[k])
                    IN /\ Leq(b.x, p.x) /\ Leq(p.x, Plus(b.x, b.w))
                       /\ Leq(b.y, p.y) /\ Leq(p.y, Plus(b.y, b.h))
        hits == IF canvasImage = NoImage THEN {}
                ELSE {k \in 1..Len(annotations) : Holds(k)}
    IN IF hits = {} THEN NoAnnotation
       ELSE annotations[CHOOSE k \in hits : \A j \in hits : j <= k]

\* getHandles(x, y, w, h): the 8 handles, in the order of the array
HandleTypes == <<"tl", "t", "tr", "r", "br", "b", "bl", "l">>
GetHandles(x, y, w, h) ==
    LET xm == Plus(x, Over(w, Num(2)))
        ym == Plus(y, Over(h, Num(2)))
        xr == Plus(x, w)
        yb == Plus(y, h)
    IN <<[x |-> x, y |-> y], [x |-> xm, y |-> y], [x |-> xr, y |-> y],
         [x |-> xr, y |-> ym], [x |-> xr, y |-> yb], [x |-> xm, y |-> yb],
         [x |-> x, y |-> yb], [x |-> x, y |-> ym]>>

\* getClickedHandle(screenX, screenY): the first handle of the selected
\* annotation within the tolerance, in screen pixels
HandleTolerance == 8
GetClickedHandle(sx, sy) ==
    IF selectedAnnotation = NoAnnotation \/ canvasImage = NoImage
    THEN NoHandle
    ELSE LET b == PixelBox(selectedAnnotation)
             handles == GetHandles(Plus(Times(b.x, scale), offsetX),
                                   Plus(Times(b.y, scale), offsetY),
                                   Times(b.w, scale), Times(b.h, scale))
             Near(i) ==
                 /\ Less(MathAbs(Minus(sx, handles[i].x)), Num(HandleTolerance))
                 /\ Less(MathAbs(Minus(sy, handles[i].y)), Num(HandleTolerance))
             hits == {i \in 1..Len(HandleTypes) : Near(i)}
         IN IF hits = {} THEN NoHandle
            ELSE HandleTypes[CHOOSE i \in hits : \A j \in hits : i <= j]

\* an updateDragBox without the least extent
UpdateDragBoxUnclamped(box, handleType, imgPoint) ==
    LET x1 == IF handleType \in {"tl", "bl", "l"} THEN imgPoint.x ELSE box.x
        y1 == IF handleType \in {"tl", "tr", "t"} THEN imgPoint.y ELSE box.y
        x2 == IF handleType \in {"tr", "br", "r"} THEN imgPoint.x
              ELSE Plus(box.x, box.w)
        y2 == IF handleType \in {"bl", "br", "b"} THEN imgPoint.y
              ELSE Plus(box.y, box.h)
    IN [x |-> x1, y |-> y1, w |-> Minus(x2, x1), h |-> Minus(y2, y1)]

\* updateDragBox(handleType, imgPoint): the new working box
MinResize == 10
UpdateDragBox(box, handleType, imgPoint) ==
    LET left == handleType \in {"tl", "bl", "l"}
        right == handleType \in {"tr", "br", "r"}
        top == handleType \in {"tl", "tr", "t"}
        bottom == handleType \in {"bl", "br", "b"}
        x1 == IF left THEN imgPoint.x ELSE box.x
        y1 == IF top THEN imgPoint.y ELSE box.y
        x2 == IF right THEN imgPoint.x ELSE Plus(box.x, box.w)
        y2 == IF bottom THEN imgPoint.y ELSE Plus(box.y, box.h)
        x2c == IF Less(Minus(x2, x1), Num(MinResize))
               THEN Plus(x1, Num(MinResize)) ELSE x2
        y2c == IF Less(Minus(y2, y1), Num(MinResize))
               THEN Plus(y1, Num(MinResize)) ELSE y2
    IN [x |-> x1, y |-> y1, w |-> Minus(x2c, x1), h |-> Minus(y2c, y1)]

\* a handleMouseDown that looks for a handle of the selected annotation
\* before it looks at the mode and the space bar
HandleMouseDownResizeFirst(sx, sy) ==
    /\ Shown
    /\ IF GetClickedHandle(sx, sy) # NoHandle
       THEN /\ dragHandle' = GetClickedHandle(sx, sy)
            /\ isDragging' = TRUE
            /\ startPoint' = ScreenToImage(sx, sy)
            /\ dragBox' = PixelBox(selectedAnnotation)
            /\ UNCHANGED <<isDrawing, isPanning, currentBox,
                           selectedAnnotation>>
       ELSE IF canvasMode = "pan" \/ spacePressed
       THEN /\ isPanning' = TRUE
            /\ startPoint' = [x |-> sx, y |-> sy]
            /\ UNCHANGED <<isDrawing, isDragging, currentBox,
                           selectedAnnotation, dragHandle, dragBox>>
       ELSE IF GetAnnotationAt(sx, sy) # NoAnnotation
       THEN /\ selectedAnnotation' = GetAnnotationAt(sx, sy)
            /\ UNCHANGED <<isDrawing, isDragging, isPanning, startPoint,
                           currentBox, dragHandle, dragBox>>
       ELSE IF selectedCategory # NoCategory
       THEN /\ selectedAnnotation' = NoAnnotation
            /\ isDrawing' = TRUE
            /\ startPoint' = ScreenToImage(sx, sy)
            /\ currentBox' = [x |-> ScreenToImage(sx, sy).x,
                              y |-> ScreenToImage(sx, sy).y,
                              w |-> Zero, h |-> Zero]
            /\ UNCHANGED <<isDragging, isPanning, dragHandle, dragBox>>
       ELSE UNCHANGED <<isDrawing, isDragging, isPanning, startPoint,
                        currentBox, selectedAnnotation, dragHandle, dragBox>>
    /\ UNCHANGED <<canvasImage, loading, viewportVars, spacePressed>>
    /\ UNCHANGED <<storeVars, viewVars>>

\* handleMouseDown(e) at the screen point (sx, sy)
HandleMouseDown(sx, sy) ==
    /\ Shown
    /\ IF canvasMode = "pan" \/ spacePressed
       THEN /\ isPanning' = TRUE
            /\ startPoint' = [x |-> sx, y |-> sy]
            /\ UNCHANGED <<isDrawing, isDragging, currentBox,
                           selectedAnnotation, dragHandle, dragBox>>
       ELSE IF GetClickedHandle(sx, sy) # NoHandle
       THEN /\ dragHandle' = GetClickedHandle(sx, sy)
            /\ isDragging' = TRUE
            /\ startPoint' = ScreenToImage(sx, sy)
            /\ dragBox' = PixelBox(selectedAnnotation)
            /\ UNCHANGED <<isDrawing, isPanning, currentBox,
                           selectedAnnotation>>
       ELSE IF GetAnnotationAt(sx, sy) # NoAnnotation
       THEN /\ selectedAnnotation' = GetAnnotationAt(sx, sy)
            /\ UNCHANGED <<isDrawing, isDragging, isPanning, startPoint,
                           currentBox, dragHandle, dragBox>>
       ELSE IF selectedCategory # NoCategory
       THEN /\ selectedAnnotation' = NoAnnotation
            /\ isDrawing' = TRUE
            /\ startPoint' = ScreenToImage(sx, sy)
            /\ currentBox' = [x |-> ScreenToImage(sx, sy).x,
                              y |-> ScreenToImage(sx, sy).y,
                              w |-> Zero, h |-> Zero]
            /\ UNCHANGED <<isDragging, isPanning, dragHandle, dragBox>>
       ELSE UNCHANGED <<isDrawing, isDragging, isPanning, startPoint,
                        currentBox, selectedAnnotation, dragHandle, dragBox>>
    /\ UNCHANGED <<canvasImage, loading, viewportVars, spacePressed>>
    /\ UNCHANGED <<storeVars, viewVars>>

\* a handleMouseMove that pans by the displacement in image pixels
HandleMouseMovePanInImage(sx, sy) ==
    /\ Shown
    /\ IF isPanning
       THEN /\ offsetX' = Plus(offsetX, Over(Minus(sx, startPoint.x), scale))
            /\ offsetY' = Plus(offsetY, Over(Minus(sy, startPoint.y), scale))
            /\ startPoint' = [x |-> sx, y |-> sy]
            /\ UNCHANGED <<scale, currentBox, dragBox>>
       ELSE IF /\ isDragging
               /\ selectedAnnotation # NoAnnotation
               /\ dragHandle # NoHandle
               /\ dragBox # NoBox
       THEN /\ dragBox' = UpdateDragBox(dragBox, dragHandle,
                                        ScreenToImage(sx, sy))
            /\ UNCHANGED <<viewportVars, startPoint, currentBox>>
       ELSE IF isDrawing /\ currentBox # NoBox
       THEN /\ currentBox' =
                [currentBox EXCEPT
                    !.w = Minus(ScreenToImage(sx, sy).x, startPoint.x),
                    !.h = Minus(ScreenToImage(sx, sy).y, startPoint.y)]
            /\ UNCHANGED <<viewportVars, startPoint, dragBox>>
       ELSE UNCHANGED <<viewportVars, startPoint, currentBox, dragBox>>
    /\ UNCHANGED <<canvasImage, loading, isDrawing, isDragging, isPanning,
                   spacePressed, selectedAnnotation, dragHandle>>
    /\ UNCHANGED <<storeVars, viewVars>>

\* handleMouseMove(e) at the screen point (sx, sy)
HandleMouseMove(sx, sy) ==
    /\ Shown
    /\ IF isPanning
       THEN /\ offsetX' = Plus(offsetX, Minus(sx, startPoint.x))
            /\ offsetY' = Plus(offsetY, Minus(sy, startPoint.y))
            /\ startPoint' = [x |-> sx, y |-> sy]
            /\ UNCHANGED <<scale, currentBox, dragBox>>
       ELSE IF /\ isDragging
               /\ selectedAnnotation # NoAnnotation
               /\ dragHandle # NoHandle
               /\ dragBox # NoBox
       THEN /\ dragBox' = UpdateDragBox(dragBox, dragHandle,
                                        ScreenToImage(sx, sy))
            /\ UNCHANGED <<viewportVars, startPoint, currentBox>>
       ELSE IF isDrawing /\ currentBox # NoBox
       THEN /\ currentBox' =
                [currentBox EXCEPT
                    !.w = Minus(ScreenToImage(sx, sy).x, startPoint.x),
                    !.h = Minus(ScreenToImage(sx, sy).y, startPoint.y)]
            /\ UNCHANGED <<viewportVars, startPoint, dragBox>>
       ELSE UNCHANGED <<viewportVars, startPoint, currentBox, dragBox>>
    /\ UNCHANGED <<canvasImage, loading, isDrawing, isDragging, isPanning,
                   spacePressed, selectedAnnotation, dragHandle>>
    /\ UNCHANGED <<storeVars, viewVars>>

\* the annotation fields a box of pixels stands for on the loaded image
Normalized(x, y, w, h) ==
    [x_center |-> Over(Plus(x, Over(w, Num(2))), imgW),
     y_center |-> Over(Plus(y, Over(h, Num(2))), imgH),
     width |-> Over(w, imgW),
     height |-> Over(h, imgH)]

\* the add event: store.addAnnotation(annotation) at clock value t
EmitAdd(annotation, t) ==
    LET id == IF selectedCategory # NoCategory /\ selectedCategory.id # 0
              THEN selectedCategory.id
              ELSE annotation.category_id
    IN AddAnnotation([annotation EXCEPT !.category_id = id], t)

\* the update event: store.updateAnnotation(id, updates)
EmitUpdate(id, updates) ==
    LET index == FindIndex(annotations, id)
    IN IF index = -1
       THEN UNCHANGED storeVars
       ELSE UpdateAnnotation(id, [annotations[index + 1].box EXCEPT
                                     !.x_center = updates.x_center,
                                     !.y_center = updates.y_center,
                                     !.width = updates.width,
                                     !.height = updates.height])

\* a delete event nobody listens to
EmitDeleteNothing(id) == UNCHANGED storeVars

\* the delete event: store.removeAnnotation(id)
EmitDelete(id) == RemoveAnnotation(id)

\* a box taken as it was dragged, its extents negative or not
FlipBoxNever(box) == box

\* `if (w < 0) { x += w; w = -w }` and the same for h: the box with its
\* top-left corner and positive extents
FlipBox(box) ==
    LET flipX == Less(box.w, Zero)
        flipY == Less(box.h, Zero)
    IN [x |-> IF flipX THEN Plus(box.x, box.w) ELSE box.x,
        y |-> IF flipY THEN Plus(box.y, box.h) ELSE box.y,
        w |-> IF flipX THEN Neg(box.w) ELSE box.w,
        h |-> IF flipY THEN Neg(box.h) ELSE box.h]

\* the least size, in image pixels, of a box that is kept
MinDraw == 5

\* a size check that keeps a box of exactly the least size
KeepsBoxInclusive(w, h) == Leq(Num(MinDraw), w) /\ Leq(Num(MinDraw), h)

\* `w > 5 && h > 5`
KeepsBox(w, h) == Less(Num(MinDraw), w) /\ Less(Num(MinDraw), h)

\* handleMouseUp(e), also the handler of mouseleave, at clock value t
HandleMouseUp(t) ==
    /\ Shown
    /\ IF isPanning
       THEN /\ isPanning' = FALSE
            /\ UNCHANGED <<isDrawing, isDragging, currentBox, dragHandle,
                           dragBox>>
            /\ UNCHANGED storeVars
       ELSE IF isDragging
       THEN /\ isDragging' = FALSE
            /\ dragHandle' = NoHandle
            /\ dragBox' = NoBox
            /\ IF /\ selectedAnnotation # NoAnnotation
                  /\ dragBox # NoBox
                  /\ canvasImage # NoImage
               THEN EmitUpdate(selectedAnnotation.id,
                               Normalized(dragBox.x, dragBox.y, dragBox.w,
                                          dragBox.h))
               ELSE UNCHANGED storeVars
            /\ UNCHANGED <<isDrawing, isPanning, currentBox>>
       ELSE IF isDrawing /\ currentBox # NoBox
       THEN LET x == FlipBox(currentBox).x
                y == FlipBox(currentBox).y
                w == FlipBox(currentBox).w
                h == FlipBox(currentBox).h
            IN /\ isDrawing' = FALSE
               /\ currentBox' = NoBox
               /\ IF KeepsBox(w, h) /\ canvasImage # NoImage
                  THEN EmitAdd([category_id |-> selectedCategory.id]
                                   @@ Normalized(x, y, w, h), t)
                  ELSE UNCHANGED storeVars
               /\ UNCHANGED <<isDragging, isPanning, dragHandle, dragBox>>
       ELSE /\ UNCHANGED <<isDrawing, isDragging, isPanning, currentBox,
                           dragHandle, dragBox>>
            /\ UNCHANGED storeVars
    /\ UNCHANGED <<canvasImage, loading, viewportVars, spacePressed,
                   startPoint, selectedAnnotation>>
    /\ UNCHANGED viewVars

\* handleKeyDown(e) of the canvas: e.code for the space bar, e.key else
HandleKeyDown(key) ==
    /\ Shown
    /\ spacePressed' = (spacePressed \/ key = "Space")
    /\ IF key \in {"Delete", "Backspace"} /\ selectedAnnotation # NoAnnotation
       THEN /\ EmitDelete(selectedAnnotation.id)
            /\ selectedAnnotation' = NoAnnotation
       ELSE /\ UNCHANGED storeVars
            /\ UNCHANGED selectedAnnotation
    /\ UNCHANGED <<canvasImage, loading, viewportVars, isDrawing, isDragging,
                   isPanning, startPoint, currentBox, dragHandle, dragBox>>
    /\ UNCHANGED viewVars

\* handleKeyUp(e) of the canvas
HandleKeyUp(key) ==
    /\ Shown
    /\ spacePressed' = (spacePressed /\ key # "Space")
    /\ UNCHANGED <<canvasImage, loading, viewportVars, isDrawing, isDragging,
                   isPanning, startPoint, currentBox, selectedAnnotation,
                   dragHandle, dragBox>>
    /\ UNCHANGED <<storeVars, viewVars>>

----------------------------------------------------------------------------
(* The Annotate view: loadData, handleSave and handleSkip. Each awaits the *)
(* store's functions in turn; a suspended handler is a task of its own     *)
(* kind, the request it awaits being the one of saveAnnotations.           *)
(* loadProgress() changes nothing of this state and its request is taken   *)
(* to return at once.                                                      *)

\* a category record as the server sends it
Category(id, key) == [id |-> id, shortcut_key |-> key]

\* the categories of the dataset
DatasetCategories == <<Category(1, "1"), Category(2, "n")>>

\* loadData() up to `await api.get` of loadCategories
LoadData ==
    /\ tasks' = Append(tasks, Task("loadData", "categories", NoImage, <<>>,
                                   FALSE, 0, <<>>))
    /\ UNCHANGED <<currentImage, undoVars, isLoading, prefetchVars, navVars,
                   srvDone, now>>
    /\ UNCHANGED uiVars

\* the view after `await store.fetchNextImage(...)` returned
ModeAfterFetch == IF isLoading' THEN canvasMode ELSE "pan"

\* loadCategories gets its response, loadData goes on to fetchNextImage
LoadCategoriesDone(k, cats) ==
    /\ tasks[k].kind = "loadData"
    /\ categories' = cats
    /\ selectedCategory' = IF Len(cats) = 1 THEN cats[1] ELSE selectedCategory
    /\ FetchNextImageFrom(RemoveAt(tasks, k))
    /\ canvasMode' = ModeAfterFetch
    /\ UNCHANGED <<navVars, srvDone, now>>
    /\ UNCHANGED <<shortcuts, message, showHelp, showShortcutSettings,
                   editingCategoryShortcut>>
    /\ Render

\* loadCategories fails: loadData reports it
LoadCategoriesFail(k) ==
    /\ tasks[k].kind = "loadData"
    /\ message' = "error"
    /\ tasks' = RemoveAt(tasks, k)
    /\ UNCHANGED <<currentImage, undoVars, isLoading, prefetchVars, navVars,
                   srvDone, now>>
    /\ UNCHANGED <<categories, selectedCategory, shortcuts, canvasMode,
                   showHelp, showShortcutSettings, editingCategoryShortcut,
                   canvasVars>>

\* the handlers that save and then advance
SaveHandlers == {"handleSave", "handleSkip"}

\* handleSave / handleSkip after `await store.saveAnnotations(...)`
\* returned, where the suspended calls are ts and the store says browsing
\* for isInHistory
HandlerAdvances(handler, ts, browsing) ==
    /\ message' = IF handler = "handleSave" THEN "success" ELSE "info"
    /\ IF handler = "handleSave" /\ browsing
       THEN /\ tasks' = ts
            /\ canvasMode' = canvasMode
            /\ UNCHANGED <<currentImage, undoVars, isLoading, prefetchVars>>
       ELSE /\ FetchNextImageFrom(ts)
            /\ canvasMode' = ModeAfterFetch
    /\ UNCHANGED <<categories, selectedCategory, shortcuts, showHelp,
                   showShortcutSettings, editingCategoryShortcut>>
    /\ Render

\* handleSave() / handleSkip() up to the request of saveAnnotations; with
\* no current image saveAnnotations returns at once and the handler goes on
HandlerCall(handler) ==
    IF currentImage = NoImage
    THEN /\ HandlerAdvances(handler, tasks, isInHistory)
         /\ UNCHANGED <<navVars, srvDone, now>>
    ELSE /\ tasks' = Append(tasks, Task(handler, "post", currentImage, <<>>,
                                        FALSE, 0,
                                        AnnotationsData(annotations)))
         /\ UNCHANGED <<currentImage, undoVars, isLoading, prefetchVars,
                        navVars, srvDone, now>>
         /\ UNCHANGED uiVars

handleSave == HandlerCall("handleSave")
handleSkip == HandlerCall("handleSkip")

\* the save request of a handler succeeds: saveAnnotations records the
\* image, the handler shows its message and advances
HandlerSaved(k) ==
    /\ tasks[k].kind \in SaveHandlers
    /\ srvDone' = srvDone \cup {tasks[k].id}
    /\ LET r == IF ~isInHistory
                THEN RecordToProcessedHistory(Nav, currentImage, tasks[k].data)
                ELSE Nav
       IN /\ processedHistory' = r.processedHistory
          /\ historyPosition' = r.historyPosition
          /\ isInHistory' = r.isInHistory
    /\ HandlerAdvances(tasks[k].kind, RemoveAt(tasks, k), isInHistory')
    /\ now' = now

\* a handler that advanced also when its save request failed
HandlerSaveFailedAdvancing(k) ==
    /\ tasks[k].kind \in SaveHandlers
    /\ message' = "error"
    /\ FetchNextImageFrom(RemoveAt(tasks, k))
    /\ UNCHANGED <<navVars, srvDone, now>>
    /\ UNCHANGED <<categories, selectedCategory, shortcuts, canvasMode,
                   showHelp, showShortcutSettings, editingCategoryShortcut>>
    /\ Render

\* the save request of a handler fails: saveAnnotations throws, the
\* handler's catch block reports it
HandlerSaveFailed(k) ==
    /\ tasks[k].kind \in SaveHandlers
    /\ message' = "error"
    /\ tasks' = RemoveAt(tasks, k)
    /\ UNCHANGED <<currentImage, undoVars, isLoading, prefetchVars, navVars,
                   srvDone, now>>
    /\ UNCHANGED <<categories, selectedCategory, shortcuts, canvasMode,
                   showHelp, showShortcutSettings, editingCategoryShortcut,
                   canvasVars>>

\* a request of the prefetch pipeline completes under the view: the handler
\* that awaits fetchNextImage goes on when it returns, or reports its error
ViewPrefetchResponse(k, blobs) ==
    /\ \/ InitializeBatchDone(k, ServerBatch(PREFETCH_SIZE))
       \/ InitializeBatchDone(k, <<>>)
       \/ \E ok \in blobs : InitializeBlobDone(k, ok)
       \/ BackgroundBatchDone(k, ServerBatch(PREFETCH_SIZE))
       \/ BackgroundBatchDone(k, <<>>)
       \/ \E ok \in blobs : BackgroundBlobDone(k, ok)
       \/ FetchNextDirectDone(k, ServerNext)
    /\ canvasMode' = IF isLoading /\ ~isLoading' THEN "pan" ELSE canvasMode
    /\ UNCHANGED <<categories, selectedCategory, shortcuts, message, showHelp,
                   showShortcutSettings, editingCategoryShortcut>>
    /\ Render

\* the request of fetchNextImage fails: the awaiting handler reports it
ViewFetchFails(k) ==
    /\ FetchNextDirectFail(k)
    /\ message' = "error"
    /\ UNCHANGED <<categories, selectedCategory, shortcuts, canvasMode,
                   showHelp, showShortcutSettings, editingCategoryShortcut>>
    /\ Render

\* the view is opened once; then the user saves or skips, one command at a
\* time, while the prefetch pipeline runs
NoHandlerSuspended ==
    \A k \in 1..Len(tasks) :
        tasks[k].kind \notin SaveHandlers \cup {"loadData"}

NextView ==
    \/ /\ tasks = <<>>
       /\ categories = <<>>
       /\ message = ""
       /\ LoadData
    \/ \E k \in 1..Len(tasks) : LoadCategoriesDone(k, DatasetCategories)
    \/ \E k \in 1..Len(tasks) : LoadCategoriesFail(k)
    \/ /\ NoHandlerSuspended
       /\ categories # <<>>
       /\ ~isLoading
       /\ Len(history) < MaxHistLen
       /\ Len(processedHistory) < MaxProcessed
       /\ handleSave
    \/ /\ NoHandlerSuspended
       /\ categories # <<>>
       /\ ~isLoading
       /\ Len(history) < MaxHistLen
       /\ Len(processedHistory) < MaxProcessed
       /\ handleSkip
    \/ \E k \in 1..Len(tasks) : HandlerSaved(k)
    \/ \E k \in 1..Len(tasks) : HandlerSaveFailed(k)
    \/ \E k \in 1..Len(tasks) : ViewPrefetchResponse(k, BOOLEAN)
    \/ \E k \in 1..Len(tasks) : ViewFetchFails(k)

SpecView == Init /\ [][NextView]_vars

----------------------------------------------------------------------------
(* C12: a save request that fails leaves the store as it was before the    *)
(* save call (current image, annotations, undo history and index,          *)
(* processed history, cursor, browsing flag, queue), and the handler does  *)
(* not advance to the next image.                                          *)

C12_FailedSaveChangesNothing ==
    [][\A k \in 1..Len(tasks) :
         HandlerSaveFailed(k) =>
             /\ currentImage' = tasks[k].id
             /\ AnnotationsData(annotations') = tasks[k].data
             /\ UNCHANGED <<currentImage, undoVars, navVars, imageQueue>>
             /\ tasks' = RemoveAt(tasks, k)
             /\ isLoading' = isLoading]_vars

\* a save has failed: the image is still current and not on the server's
\* processed list, with annotations and a queue to advance to
C12_Witness ==
    /\ message = "error"
    /\ currentImage # NoImage
    /\ currentImage \notin srvDone
    /\ annotations # <<>>
    /\ imageQueue # <<>>
    /\ NoHandlerSuspended

----------------------------------------------------------------------------
(* The viewport of the canvas: images come and go (the view is opened,     *)
(* images are skipped), their files load, and the user zooms with the      *)
(* wheel, fits the image to the container and pans.                        *)

\* screen points of wheel and pan events
ScreenPoints == {<<400, 300>>, <<0, 0>>}

\* bounds of the viewport: the wheel is turned and a pan starts while
\* scale and offsets have denominators of at most MaxScaleDen and the
\* image is within MaxOffset pixels of the origin
MaxScaleDen == 32
MaxOffset == 100

InBounds ==
    /\ scale.d <= MaxScaleDen
    /\ offsetX.d <= MaxScaleDen
    /\ offsetY.d <= MaxScaleDen
    /\ Less(MathAbs(offsetX), Num(MaxOffset))
    /\ Less(MathAbs(offsetY), Num(MaxOffset))

NextZoom ==
    \/ /\ tasks = <<>>
       /\ categories = <<>>
       /\ message = ""
       /\ LoadData
    \/ \E k \in 1..Len(tasks) : LoadCategoriesDone(k, DatasetCategories)
    \/ /\ NoHandlerSuspended
       /\ Shown
       /\ Len(history) < MaxHistLen
       /\ handleSkip
    \/ \E k \in 1..Len(tasks) : HandlerSaved(k)
    \/ \E k \in 1..Len(tasks) : ViewPrefetchResponse(k, {TRUE})
    \/ \E id \in ImageIds, c \in ContainerSizes : ImageOnload(id, c[1], c[2])
    \/ \E c \in ContainerSizes : FitToView(c[1], c[2])
    \/ /\ InBounds
       /\ ~isPanning
       /\ \E p \in ScreenPoints, down \in BOOLEAN :
              HandleWheel(Num(p[1]), Num(p[2]), down)
    \/ /\ InBounds
       /\ ~isPanning
       /\ \E p \in ScreenPoints : HandleMouseDown(Num(p[1]), Num(p[2]))
    \/ /\ isPanning
       /\ \E p \in ScreenPoints : HandleMouseMove(Num(p[1]), Num(p[2]))
    \/ /\ isPanning
       /\ HandleMouseUp(now)

SpecZoom == Init /\ [][NextZoom]_vars

----------------------------------------------------------------------------
(* C17: in every reachable state of the canvas the scale lies in           *)
(* [minScale, maxScale] = [0.1, 10], after any sequence of wheel zooms,    *)
(* fit-to-container calls, pans and image changes.                         *)

C17_ScaleInRange == Leq(MinScale, scale) /\ Leq(scale, MaxScale)

----------------------------------------------------------------------------
(* C18: for a wheel event at screen point p, with any current scale and    *)
(* offset, the image point that was under p before the zoom maps back to p *)
(* after it (p = imagePoint * newScale + newOffset), also when the new     *)
(* scale is clamped at minScale or maxScale; with scale 1, offset (0, 0),  *)
(* p = (400, 300) and zoom-in the new scale is 1.1 and the image point     *)
(* (400, 300) maps to the screen point (400, 300).                         *)

WheelAt(p, down) == HandleWheel(Num(p[1]), Num(p[2]), down)

C18_ZoomKeepsPointUnderPointer ==
    [][\A p \in ScreenPoints, down \in BOOLEAN :
         WheelAt(p, down) =>
             LET imgPoint == ScreenToImage(Num(p[1]), Num(p[2]))
             IN /\ Plus(Times(imgPoint.x, scale'), offsetX') = Num(p[1])
                /\ Plus(Times(imgPoint.y, scale'), offsetY') = Num(p[2])
                /\ Leq(MinScale, scale') /\ Leq(scale', MaxScale)
                /\ (/\ scale = One /\ offsetX = Zero /\ offsetY = Zero
                    /\ p = <<400, 300>> /\ ~down)
                   => /\ scale' = Rat(11, 10)
                      /\ imgPoint = [x |-> Num(400), y |-> Num(300)]]_vars

\* a wheel zoom has been clamped at maxScale away from the origin, and one
\* at minScale
C18_Witness ==
    /\ Shown
    /\ \/ scale = MaxScale /\ offsetX # Zero
       \/ scale = MinScale /\ offsetX # Zero

----------------------------------------------------------------------------
(* The keyboard of the Annotate view: the window's keydown listener, the   *)
(* shortcuts store and the editing of a category's shortcut key.           *)

\* String.prototype.toLowerCase on the key names that occur
ToLowerCase(key) ==
    CASE key = "N" -> "n"
      [] key = "V" -> "v"
      [] key = "Escape" -> "escape"
      [] key = "Delete" -> "delete"
      [] key = "Backspace" -> "backspace"
      [] OTHER -> key

\* shortcutsStore.matchShortcut(event, action); ctrl is ctrlKey || metaKey
MatchShortcut(key, ctrl, shift, action) ==
    LET shortcut == shortcuts[action]
    IN /\ ToLowerCase(key) = ToLowerCase(shortcut.key)
       /\ ctrl = shortcut.ctrl
       /\ shift = shortcut.shift

\* shortcutsStore.updateShortcut(action, config)
UpdateShortcut(action, config) ==
    /\ shortcuts' = [shortcuts EXCEPT ![action] = config]
    /\ UNCHANGED <<categories, selectedCategory, canvasMode, message,
                   showHelp, showShortcutSettings, editingCategoryShortcut>>
    /\ UNCHANGED <<storeVars, canvasVars>>

\* shortcutsStore.resetToDefault()
ResetToDefault ==
    /\ shortcuts' = DEFAULT_SHORTCUTS
    /\ UNCHANGED <<categories, selectedCategory, canvasMode, message,
                   showHelp, showShortcutSettings, editingCategoryShortcut>>
    /\ UNCHANGED <<storeVars, canvasVars>>

\* categories.find(c => c.shortcut_key === key) of selectCategoryByKey
CategoryByKey(key) ==
    LET hits == {i \in 1..Len(categories) : categories[i].shortcut_key = key}
    IN IF hits = {} THEN NoCategory
       ELSE categories[CHOOSE i \in hits : \A j \in hits : i <= j]

\* handleKeydown(e) of the view: e.key, ctrlKey || metaKey, shiftKey and
\* e.target.tagName
handleKeydown(key, ctrl, shift, tagName) ==
    IF tagName \in {"INPUT", "TEXTAREA"} \/ editingCategoryShortcut # 0
    THEN UNCHANGED vars
    ELSE IF MatchShortcut(key, ctrl, shift, "save") THEN handleSave
    ELSE IF MatchShortcut(key, ctrl, shift, "skip") THEN handleSkip
    ELSE IF MatchShortcut(key, ctrl, shift, "undo")
    THEN Undo /\ UNCHANGED uiVars
    ELSE IF MatchShortcut(key, ctrl, shift, "redo")
    THEN Redo /\ UNCHANGED uiVars
    ELSE IF MatchShortcut(key, ctrl, shift, "help")
    THEN /\ showHelp' = ~showHelp
         /\ UNCHANGED <<categories, selectedCategory, shortcuts, canvasMode,
                        message, showShortcutSettings,
                        editingCategoryShortcut>>
         /\ UNCHANGED <<storeVars, canvasVars>>
    ELSE IF ToLowerCase(key) = "escape"
    THEN /\ showHelp' = FALSE
         /\ showShortcutSettings' = FALSE
         /\ UNCHANGED <<categories, selectedCategory, shortcuts, canvasMode,
                        message, editingCategoryShortcut>>
         /\ UNCHANGED <<storeVars, canvasVars>>
    ELSE IF ToLowerCase(key) \in {"v", "h"}
    THEN /\ canvasMode' = IF ToLowerCase(key) = "v" THEN "annotate"
                          ELSE "pan"
         /\ UNCHANGED <<categories, selectedCategory, shortcuts, message,
                        showHelp, showShortcutSettings,
                        editingCategoryShortcut>>
         /\ UNCHANGED <<storeVars, canvasVars>>
    ELSE LET selected == CategoryByKey(ToLowerCase(key))
         IN /\ selectedCategory' = IF selected # NoCategory THEN selected
                                   ELSE selectedCategory
            /\ canvasMode' = IF selected # NoCategory THEN "annotate"
                             ELSE canvasMode
            /\ UNCHANGED <<categories, shortcuts, message, showHelp,
                           showShortcutSettings, editingCategoryShortcut>>
            /\ UNCHANGED <<storeVars, canvasVars>>

\* selectCategory(category): a click on a category of the list
selectCategory(category) ==
    /\ IF editingCategoryShortcut # 0
       THEN UNCHANGED <<selectedCategory, canvasMode>>
       ELSE /\ selectedCategory' = category
            /\ canvasMode' = "annotate"
    /\ UNCHANGED <<categories, shortcuts, message, showHelp,
                   showShortcutSettings, editingCategoryShortcut>>
    /\ UNCHANGED <<storeVars, canvasVars>>

\* startEditCategoryShortcut(category, e)
startEditCategoryShortcut(category) ==
    /\ editingCategoryShortcut' = category.id
    /\ UNCHANGED <<categories, selectedCategory, shortcuts, canvasMode,
                   message, showHelp, showShortcutSettings>>
    /\ UNCHANGED <<storeVars, canvasVars>>

\* handleCategoryShortcutKeydown(category, e) up to the request of
\* updateCategoryShortcut
handleCategoryShortcutKeydown(category, key) ==
    LET newKey == ToLowerCase(key)
        conflict == \E i \in 1..Len(categories) :
                        /\ categories[i].id # category.id
                        /\ categories[i].shortcut_key = newKey
    IN /\ editingCategoryShortcut' =
              IF key = "Escape" THEN 0 ELSE editingCategoryShortcut
       /\ tasks' = IF key # "Escape" /\ ~conflict
                   THEN Append(tasks, Task("updateCategoryShortcut", newKey,
                                           category.id, <<>>, FALSE, 0, <<>>))
                   ELSE tasks
       /\ UNCHANGED <<currentImage, undoVars, isLoading, prefetchVars,
                      navVars, srvDone, now>>
       /\ UNCHANGED <<categories, selectedCategory, shortcuts, canvasMode,
                      message, showHelp, showShortcutSettings, canvasVars>>

\* updateCategoryShortcut gets its response: the category object, which
\* the selected category may be, gets the key
UpdateCategoryShortcutDone(k, ok) ==
    LET WithKey(c) == IF c.id = tasks[k].id
                      THEN [c EXCEPT !.shortcut_key = tasks[k].pc] ELSE c
    IN /\ tasks[k].kind = "updateCategoryShortcut"
       /\ categories' = IF ok THEN [i \in 1..Len(categories) |->
                                        WithKey(categories[i])]
                        ELSE categories
       /\ selectedCategory' = IF ok /\ selectedCategory # NoCategory
                              THEN WithKey(selectedCategory)
                              ELSE selectedCategory
       /\ message' = IF ok THEN "success" ELSE "error"
       /\ editingCategoryShortcut' = 0
       /\ tasks' = RemoveAt(tasks, k)
       /\ UNCHANGED <<currentImage, undoVars, isLoading, prefetchVars,
                      navVars, srvDone, now>>
       /\ UNCHANGED <<shortcuts, canvasMode, showHelp, showShortcutSettings,
                      canvasVars>>

\* the key events of the slice: e.key, ctrlKey || metaKey, shiftKey
KeyEvents ==
    {<<"n", FALSE, FALSE>>, <<"1", FALSE, FALSE>>, <<"v", FALSE, FALSE>>,
     <<"h", FALSE, FALSE>>, <<"x", FALSE, FALSE>>, <<"?", FALSE, FALSE>>,
     <<"Escape", FALSE, FALSE>>, <<"s", TRUE, FALSE>>, <<"z", TRUE, FALSE>>,
     <<"z", TRUE, TRUE>>, <<"N", FALSE, TRUE>>}

\* the bindings the user gives to an action
ShortcutConfigs == {Binding("x", FALSE, FALSE), Binding("1", FALSE, FALSE)}

\* the keys the user gives to a category
CategoryKeys == {"v", "1", "Escape"}

\* at most MaxRebinds actions are bound to another key than their default
MaxRebinds == 1
Rebound == {a \in DOMAIN shortcuts : shortcuts[a] # DEFAULT_SHORTCUTS[a]}

NextKeys ==
    \/ /\ tasks = <<>>
       /\ categories = <<>>
       /\ message = ""
       /\ LoadData
    \/ \E k \in 1..Len(tasks) : LoadCategoriesDone(k, DatasetCategories)
    \/ /\ NoHandlerSuspended
       /\ categories # <<>>
       /\ ~isLoading
       /\ Len(history) < MaxHistLen
       /\ Len(processedHistory) < MaxProcessed
       /\ \E e \in KeyEvents, tagName \in {"BODY", "INPUT"} :
              handleKeydown(e[1], e[2], e[3], tagName)
    \/ \E k \in 1..Len(tasks) : HandlerSaved(k)
    \/ \E k \in 1..Len(tasks) : ViewPrefetchResponse(k, {TRUE})
    \/ /\ Cardinality(Rebound) < MaxRebinds
       /\ \E action \in DOMAIN shortcuts, config \in ShortcutConfigs :
              UpdateShortcut(action, config)
    \/ /\ Rebound # {}
       /\ ResetToDefault
    \/ \E i \in 1..Len(categories) : selectCategory(categories[i])
    \/ /\ editingCategoryShortcut = 0
       /\ \E i \in 1..Len(categories) :
              startEditCategoryShortcut(categories[i])
    \/ /\ editingCategoryShortcut # 0
       /\ \A k \in 1..Len(tasks) : tasks[k].kind # "updateCategoryShortcut"
       /\ \E i \in 1..Len(categories), key \in CategoryKeys :
              /\ categories[i].id = editingCategoryShortcut
              /\ handleCategoryShortcutKeydown(categories[i], key)
    \/ \E k \in 1..Len(tasks), ok \in BOOLEAN :
           UpdateCategoryShortcutDone(k, ok)

SpecKeys == Init /\ [][NextKeys]_vars

----------------------------------------------------------------------------
(* C19: for every category that has a shortcut key k, pressing k (no       *)
(* modifier keys, focus outside input fields, no shortcut being edited)    *)
(* makes that category the selected category and sets the canvas mode to   *)
(* 'annotate', whatever k is and whatever the action shortcuts are.        *)

C19_CategoryKeySelects ==
    [][\A i \in 1..Len(categories) :
         (/\ categories[i].shortcut_key # ""
          /\ editingCategoryShortcut = 0
          /\ handleKeydown(categories[i].shortcut_key, FALSE, FALSE, "BODY"))
         => /\ selectedCategory' = categories[i]
            /\ canvasMode' = "annotate"]_vars

----------------------------------------------------------------------------
(* The canvas in annotate mode: the view is opened, the image file loads   *)
(* and is fitted to a container of 800 x 600, the user selects a category, *)
(* draws boxes, selects them and deletes them (SpecDraw) or drags their    *)
(* handles (SpecResize). The pointer goes to image points and to the       *)
(* handles of the selected annotation, at the screen points the viewport   *)
(* gives them.                                                             *)

\* the image points the pointer goes to
ImagePoints ==
    {<<100, 100>>, <<300, 400>>, <<100, 400>>, <<300, 100>>, <<105, 400>>,
     <<500, 500>>}

\* the screen point of an image point under the viewport
ToScreen(p) ==
    [x |-> Plus(Times(Num(p[1]), scale), offsetX),
     y |-> Plus(Times(Num(p[2]), scale), offsetY)]

\* the screen points of the handles of the selected annotation
ScreenHandles ==
    IF selectedAnnotation = NoAnnotation \/ canvasImage = NoImage
    THEN <<>>
    ELSE LET b == PixelBox(selectedAnnotation)
         IN GetHandles(Plus(Times(b.x, scale), offsetX),
                       Plus(Times(b.y, scale), offsetY),
                       Times(b.w, scale), Times(b.h, scale))

\* no button is held
PointerIdle == ~isDrawing /\ ~isDragging /\ ~isPanning

\* the edits of the slice: at most MaxCanvasEdits draws and resizes on an
\* image, after which the user still selects and deletes
MaxCanvasEdits == 2
MayEdit == Len(history) <= MaxCanvasEdits
MayDelete == Len(history) <= MaxCanvasEdits + 1

\* a mouse-down at the image point would select an annotation
SelectsAt(p) ==
    /\ GetClickedHandle(ToScreen(p).x, ToScreen(p).y) = NoHandle
    /\ GetAnnotationAt(ToScreen(p).x, ToScreen(p).y) # NoAnnotation

\* the pointer goes down on, moves to and is released at an image point
MouseDownAt(p) == HandleMouseDown(ToScreen(p).x, ToScreen(p).y)
MouseMoveTo(p) == HandleMouseMove(ToScreen(p).x, ToScreen(p).y)
MouseUpNow == HandleMouseUp(now + 1)

\* the user draws boxes, selects them and deletes them, and grabs no handle
NextDraw ==
    \/ /\ tasks = <<>>
       /\ categories = <<>>
       /\ message = ""
       /\ LoadData
    \/ \E k \in 1..Len(tasks) : LoadCategoriesDone(k, DatasetCategories)
    \/ \E k \in 1..Len(tasks) : ViewPrefetchResponse(k, {TRUE})
    \/ \E id \in ImageIds : ImageOnload(id, 800, 600)
    \/ /\ PointerIdle
       /\ \E i \in 1..Len(categories) : selectCategory(categories[i])
    \/ /\ PointerIdle
       /\ \E key \in {"v", "h"} : handleKeydown(key, FALSE, FALSE, "BODY")
    \/ /\ PointerIdle
       /\ canvasMode = "annotate"
       /\ \E p \in ImagePoints :
              /\ MayEdit \/ SelectsAt(p)
              /\ GetClickedHandle(ToScreen(p).x, ToScreen(p).y) = NoHandle
              /\ MouseDownAt(p)
    \/ /\ ~PointerIdle
       /\ \E p \in ImagePoints : MouseMoveTo(p)
    \/ /\ ~PointerIdle
       /\ MouseUpNow
    \/ /\ PointerIdle
       /\ MayDelete
       /\ \E key \in {"Delete", "Backspace"} : HandleKeyDown(key)

SpecDraw == Init /\ [][NextDraw]_vars

\* the image points of the resize drags: two corners of the example box, a
\* point beyond the right and bottom edges, one beyond the left and top
ResizePoints == {<<100, 100>>, <<300, 400>>, <<500, 500>>, <<50, 50>>}

\* the user draws one box, selects it and drags its handles
NextResize ==
    \/ /\ tasks = <<>>
       /\ categories = <<>>
       /\ message = ""
       /\ LoadData
    \/ \E k \in 1..Len(tasks) : LoadCategoriesDone(k, DatasetCategories)
    \/ \E k \in 1..Len(tasks) : ViewPrefetchResponse(k, {TRUE})
    \/ \E id \in ImageIds : ImageOnload(id, 800, 600)
    \/ /\ PointerIdle
       /\ selectedCategory = NoCategory
       /\ \E i \in 1..Len(categories) : selectCategory(categories[i])
    \/ /\ PointerIdle
       /\ canvasMode = "annotate"
       /\ canvasImage # NoImage
       /\ \E p \in ResizePoints :
              /\ annotations = <<>> \/ SelectsAt(p)
              /\ MouseDownAt(p)
    \/ /\ PointerIdle
       /\ canvasMode = "annotate"
       /\ MayEdit
       /\ \E i \in 1..Len(ScreenHandles) :
              HandleMouseDown(ScreenHandles[i].x, ScreenHandles[i].y)
    \/ /\ ~PointerIdle
       /\ \E p \in ResizePoints : MouseMoveTo(p)
    \/ /\ ~PointerIdle
       /\ MouseUpNow

SpecResize == Init /\ [][NextResize]_vars

----------------------------------------------------------------------------
(* C14: a draw drag in annotate mode from image point (x0,y0) to (x1,y1),  *)
(* in any of the four drag directions, with |x1-x0| > 5 and |y1-y0| > 5 on *)
(* an image of size W x H, emits exactly one add mutation with category_id *)
(* = the selected category's id, x_center = ((x0+x1)/2)/W, y_center =      *)
(* ((y0+y1)/2)/H, width = |x1-x0|/W and height = |y1-y0|/H; (100,100) to   *)
(* (300,400) on 1920 x 1080 gives 200/1920, 250/1080, 200/1920, 300/1080.  *)

\* the annotation the claim names for the drag from (x0,y0) to (x1,y1)
Drawn(x0, y0, x1, y1, W, H) ==
    [category_id |-> selectedCategory.id,
     x_center |-> Over(Over(Plus(x0, x1), Num(2)), W),
     y_center |-> Over(Over(Plus(y0, y1), Num(2)), H),
     width |-> Over(MathAbs(Minus(x1, x0)), W),
     height |-> Over(MathAbs(Minus(y1, y0)), H)]

\* a mouse-down starts a draw
DrawStarts(p) ==
    /\ ~isDrawing
    /\ isDrawing'
    /\ MouseDownAt(p)

C14_DrawEmitsNormalizedAdd ==
    [][/\ \A p \in ImagePoints :
            DrawStarts(p) =>
                /\ startPoint' = [x |-> Num(p[1]), y |-> Num(p[2])]
                /\ currentBox' = [x |-> Num(p[1]), y |-> Num(p[2]),
                                  w |-> Zero, h |-> Zero]
       /\ \A p \in ImagePoints :
            (isDrawing /\ MouseMoveTo(p)) =>
                currentBox' = [x |-> startPoint.x, y |-> startPoint.y,
                               w |-> Minus(Num(p[1]), startPoint.x),
                               h |-> Minus(Num(p[2]), startPoint.y)]
       /\ (/\ isDrawing
           /\ canvasImage # NoImage
           /\ Less(Num(5), MathAbs(currentBox.w))
           /\ Less(Num(5), MathAbs(currentBox.h))
           /\ MouseUpNow)
          => /\ annotations' =
                   Append(annotations,
                          [id |-> DateNow(now'),
                           box |-> Drawn(startPoint.x, startPoint.y,
                                         Plus(startPoint.x, currentBox.w),
                                         Plus(startPoint.y, currentBox.h),
                                         imgW, imgH)])
             /\ Len(history') = Len(history) + 1
             /\ selectedCategory # NoCategory
             /\ canvasMode' = canvasMode
       /\ \A Q \in {selectedCategory} :
            Drawn(Num(100), Num(100), Num(300), Num(400),
                  Num(1920), Num(1080))
              = [category_id |-> Q.id,
                 x_center |-> Rat(200, 1920), y_center |-> Rat(250, 1080),
                 width |-> Rat(200, 1920), height |-> Rat(300, 1080)]]_vars

\* the example box was drawn from its bottom-right to its top-left corner
C14_Witness ==
    /\ Len(annotations) = 1
    /\ annotations[1].box.x_center = Rat(200, 1920)
    /\ annotations[1].box.y_center = Rat(250, 1080)
    /\ annotations[1].box.width = Rat(200, 1920)
    /\ annotations[1].box.height = Rat(300, 1080)
    /\ annotations[1].box.category_id = 2
    /\ startPoint = [x |-> Num(300), y |-> Num(400)]
    /\ PointerIdle
    /\ currentBox = NoBox

----------------------------------------------------------------------------
(* C15: a draw drag whose normalized final box has pixel width <= 5 or     *)
(* pixel height <= 5 emits no add mutation and leaves the annotation set   *)
(* and the undo history unchanged; the machine returns to Idle with no     *)
(* working box.                                                            *)

\* the working box of the draw is too small on an axis
TooSmall ==
    \/ Leq(MathAbs(currentBox.w), Num(5))
    \/ Leq(MathAbs(currentBox.h), Num(5))

C15_SmallDrawRejected ==
    [][(/\ isDrawing
        /\ currentBox # NoBox
        /\ TooSmall
        /\ MouseUpNow)
       => /\ UNCHANGED <<annotations, history, historyIndex>>
          /\ PointerIdle'
          /\ currentBox' = NoBox]_vars

\* a draw from (100,100) on the loaded image has ended without an edit
C15_Witness ==
    /\ canvasImage = 1
    /\ canvasMode = "annotate"
    /\ selectedCategory # NoCategory
    /\ startPoint = [x |-> Num(100), y |-> Num(100)]
    /\ PointerIdle
    /\ currentBox = NoBox
    /\ annotations = <<>>
    /\ Len(history) = 1

----------------------------------------------------------------------------
(* C16: during a resize drag, after every pointer-move with any of the 8   *)
(* handles and any pointer position (including positions beyond the        *)
(* opposite edge), the working box has width >= 10 and height >= 10 image  *)
(* pixels, with the extent exactly 10 on an axis where the dragged edge    *)
(* would have reached or crossed the opposite edge; it is never zero or    *)
(* negative.                                                               *)

\* a resize drag is in progress
Resizing ==
    /\ isDragging
    /\ selectedAnnotation # NoAnnotation
    /\ dragHandle # NoHandle
    /\ dragBox # NoBox

\* the edge the handle drags to p reaches or crosses the opposite edge
CrossesX(p) ==
    \/ /\ dragHandle \in {"tl", "bl", "l"}
       /\ Leq(Plus(dragBox.x, dragBox.w), Num(p[1]))
    \/ /\ dragHandle \in {"tr", "br", "r"}
       /\ Leq(Num(p[1]), dragBox.x)
CrossesY(p) ==
    \/ /\ dragHandle \in {"tl", "tr", "t"}
       /\ Leq(Plus(dragBox.y, dragBox.h), Num(p[2]))
    \/ /\ dragHandle \in {"bl", "br", "b"}
       /\ Leq(Num(p[2]), dragBox.y)

C16_ResizeKeepsMinimumExtent ==
    [][\A p \in ResizePoints :
         (Resizing /\ MouseMoveTo(p)) =>
             /\ Leq(Num(10), dragBox'.w)
             /\ Leq(Num(10), dragBox'.h)
             /\ CrossesX(p) => dragBox'.w = Num(10)
             /\ CrossesY(p) => dragBox'.h = Num(10)]_vars

\* the top-left handle was dragged beyond the bottom-right corner
C16_Witness ==
    /\ Resizing
    /\ dragHandle = "tl"
    /\ dragBox = [x |-> Num(500), y |-> Num(500), w |-> Num(10),
                  h |-> Num(10)]

----------------------------------------------------------------------------
(* C20: pressing Delete or Backspace while an annotation is selected emits *)
(* exactly one delete mutation carrying the selected annotation's id and   *)
(* clears the selection; pressing it with no selection emits nothing and   *)
(* changes no state.                                                       *)

\* the annotations without those of the selected annotation's id
WithoutSelected ==
    LET Keep(a) == a.id # selectedAnnotation.id
    IN SelectSeq(annotations, Keep)

C20_DeleteKeyRemovesSelected ==
    [][\A key \in {"Delete", "Backspace"} :
         (Shown /\ HandleKeyDown(key)) =>
             IF selectedAnnotation # NoAnnotation
             THEN /\ selectedAnnotation' = NoAnnotation
                  /\ annotations' = WithoutSelected
                  /\ Len(annotations) - Len(annotations') <= 1
                  /\ Len(history') - Len(history)
                        = Len(annotations) - Len(annotations')
                  /\ UNCHANGED <<currentImage, navVars, tasks, viewVars>>
             ELSE UNCHANGED vars]_vars

\* two annotations were drawn, the first was selected and deleted
C20_Witness ==
    /\ Shown
    /\ canvasImage = 1
    /\ Len(annotations) = 1
    /\ annotations[1].id = DateNow(2)
    /\ Len(history) = 4
    /\ selectedAnnotation = NoAnnotation
    /\ PointerIdle

----------------------------------------------------------------------------
(* Steps of the reload of goToPreviousImage / goToNextImage *)

\* a call of goToPreviousImage / goToNextImage runs up to its reload request
ReloadIssued ==
    /\ Len(tasks') = Len(tasks) + 1
    /\ tasks'[Len(tasks')].kind \in {"goToPreviousImage", "goToNextImage"}

\* a reload request fails
ReloadFails ==
    \E k \in 1..Len(tasks) : GoToPreviousFail(k) \/ GoToNextFail(k)

(* C21: a goToPrevious() / goToNext() whose reload request fails leaves    *)
(* the history cursor, the browsing flag, the processed history, the       *)
(* current image, the annotation list and the undo history as they were    *)
(* before the call: neither the part of the call that runs up to the       *)
(* request nor the arrival of the failure changes any of them.             *)
C21_FailedReloadChangesNothing ==
    [][(ReloadIssued \/ ReloadFails)
         => UNCHANGED <<navVars, currentImage, undoVars>>]_vars

----------------------------------------------------------------------------
(* C22: no image id occurs twice in the prefetch queue, whatever the       *)
(* interleaving of initialize, advance, replenishment and the completions  *)
(* of their requests.                                                      *)
C22_QueueHasNoDuplicates ==
    \A i, j \in 1..Len(imageQueue) : imageQueue[i] = imageQueue[j] => i = j

----------------------------------------------------------------------------
(* C23: the id of the current image never occurs in the prefetch queue:    *)
(* an image that is shown, and so still pending on the server, is not      *)
(* appended again by the background replenishment.                         *)
C23_CurrentNotQueued ==
    currentImage # NoImage =>
        \A j \in 1..Len(imageQueue) : imageQueue[j] # currentImage

----------------------------------------------------------------------------
(* The Annotate view with overlapping commands: the save and skip          *)
(* shortcuts may be pressed again while the request of an earlier command  *)
(* is still in flight; every blob request succeeds.                        *)

NextOverlap ==
    \/ /\ tasks = <<>>
       /\ categories = <<>>
       /\ message = ""
       /\ LoadData
    \/ \E k \in 1..Len(tasks) : LoadCategoriesDone(k, DatasetCategories)
    \/ /\ categories # <<>>
       /\ ~isLoading
       /\ Len(tasks) < MaxTasks
       /\ Len(history) < MaxHistLen
       /\ Len(processedHistory) < MaxProcessed
       /\ handleSave
    \/ /\ categories # <<>>
       /\ ~isLoading
       /\ Len(tasks) < MaxTasks
       /\ Len(history) < MaxHistLen
       /\ Len(processedHistory) < MaxProcessed
       /\ handleSkip
    \/ \E k \in 1..Len(tasks) : HandlerSaved(k)
    \/ \E k \in 1..Len(tasks) : HandlerSaveFailed(k)
    \/ \E k \in 1..Len(tasks) : ViewPrefetchResponse(k, {TRUE})

SpecOverlap == Init /\ [][NextOverlap]_vars

\* a save or skip request for the image is in flight or has succeeded
SaveSentFor(image) ==
    \/ image \in srvDone'
    \/ \E j \in 1..Len(tasks) :
           tasks[j].kind \in SaveHandlers /\ tasks[j].id = image

(* C24: under every interleaving of overlapping save / skip commands, the  *)
(* entry a successful save appends to the processed history has the id of  *)
(* the image whose save request was sent, and no image is replaced as the  *)
(* current image without a save or skip request having been sent for it.   *)
C24_OverlappingSavesRecordTheirImage ==
    [][/\ \A k \in 1..Len(tasks) :
            (~isInHistory /\ HandlerSaved(k)) =>
                processedHistory'[Len(processedHistory')].id = tasks[k].id
       /\ (currentImage # NoImage /\ currentImage' # currentImage)
            => SaveSentFor(currentImage)]_vars

----------------------------------------------------------------------------
(* C25: the history cursor stays within the processed history,             *)
(* -1 <= historyPosition <= processedHistory.length - 1, and while         *)
(* browsing it is at an entry, 0 <= historyPosition: goToPrevious() at the *)
(* oldest entry does not move it below the first entry.                    *)
C25_CursorInRange ==
    /\ -1 <= historyPosition
    /\ historyPosition <= Len(processedHistory) - 1
    /\ isInHistory => 0 <= historyPosition

----------------------------------------------------------------------------
(* C26: whenever the store is browsing and no reload of goToPrevious /     *)
(* goToNext is in flight, the current image is the one of the processed    *)
(* entry at the history cursor.                                            *)

\* a reload request of goToPreviousImage / goToNextImage is in flight
NavigationInFlight ==
    \E k \in 1..Len(tasks) :
        tasks[k].kind \in {"goToPreviousImage", "goToNextImage"}

C26_BrowsingShowsEntryAtCursor ==
    (isInHistory /\ ~NavigationInFlight) =>
        /\ historyPosition + 1 \in DOMAIN processedHistory
        /\ processedHistory[historyPosition + 1].id = currentImage

----------------------------------------------------------------------------
(* One long labelling session: the first image is saved again and again    *)
(* until the processed history is nearly full; from then on the user also  *)
(* advances to the next image and browses back and forth. One call at a    *)
(* time; every request succeeds, and a reload returns the annotations the  *)
(* server sent with the image at first.                                    *)

MaxOverflow == 1

NextLongNavigation ==
    \/ /\ tasks = <<>>
       /\ currentImage = NoImage \/ Len(processedHistory) >= PROCESSED_LIMIT - 1
       /\ Len(history) < MaxHistLen
       /\ FetchNextImageCall
       /\ UNCHANGED uiVars
    \/ /\ tasks = <<>>
       /\ ~isInHistory
       /\ SaveAnnotationsCall
       /\ UNCHANGED uiVars
    \/ /\ tasks = <<>>
       /\ ~isInHistory
       /\ Len(processedHistory) >= PROCESSED_LIMIT - 1
       /\ Len(processedHistory) < PROCESSED_LIMIT + MaxOverflow
       /\ GoToPreviousImageCall
       /\ UNCHANGED uiVars
    \/ /\ tasks = <<>>
       /\ GoToNextImageCall
       /\ UNCHANGED uiVars
    \/ \E k \in 1..Len(tasks) : PrefetchResponse(k, {TRUE})
    \/ \E k \in 1..Len(tasks) :
           /\ SaveAnnotationsDone(k)
           /\ UNCHANGED uiVars
    \/ \E k \in 1..Len(tasks) :
           /\ GoToPreviousDone(k, EmbeddedAnnotations(tasks[k].id))
           /\ UNCHANGED uiVars
    \/ \E k \in 1..Len(tasks) :
           /\ GoToNextDone(k, EmbeddedAnnotations(tasks[k].id))
           /\ UNCHANGED uiVars

SpecLongNavigation == Init /\ [][NextLongNavigation]_vars

(* C27: the processed-image history never holds more than 50 entries,      *)
(* after any sequence of save, skip, goToPrevious and goToNext.            *)
C27_ProcessedBounded == Len(processedHistory) <= PROCESSED_LIMIT

----------------------------------------------------------------------------
(* C28: the processed-image history never contains two entries with the    *)
(* same image id, after any sequence of save, skip, goToPrevious and       *)
(* goToNext.                                                               *)
C28_ProcessedHasNoDuplicates ==
    \A i, j \in 1..Len(processedHistory) :
        processedHistory[i].id = processedHistory[j].id => i = j

----------------------------------------------------------------------------
(* C29: browsing is exited when goToNext() brings the cursor to the head   *)
(* of the processed history: in every reachable state in which isInHistory *)
(* is true the cursor is below the last entry, and after a goToNext() that *)
(* moved the cursor to the head isInHistory is false.                      *)

\* a call of goToNextImage ends (its reload arrives or fails, or it had
\* nothing to load) with the cursor at the head
GoToNextEndsAtHead ==
    /\ historyPosition' = Len(processedHistory') - 1
    /\ \/ \E k \in 1..Len(tasks) :
              \/ \E a \in ServerAnnotations(tasks[k].id) : GoToNextDone(k, a)
              \/ GoToNextFail(k)
       \/ canGoNext /\ GoToNextImageCall /\ tasks' = tasks

C29_BrowsingBelowHead ==
    /\ [](isInHistory => historyPosition < Len(processedHistory) - 1)
    /\ [][GoToNextEndsAtHead => ~isInHistory']_vars

----------------------------------------------------------------------------
(* Advance and replenishment: fetchNextImage may be called again while a   *)
(* prefetch is still in progress; saves are awaited before the next call.  *)

NextReplenish ==
    \/ /\ Len(tasks) < MaxTasks
       /\ Len(history) < MaxHistLen
       /\ FetchNextImageCall
       /\ UNCHANGED uiVars
    \/ /\ tasks = <<>>
       /\ Len(processedHistory) < MaxProcessed
       /\ SaveAnnotationsCall
       /\ UNCHANGED uiVars
    \/ \E k \in 1..Len(tasks) : PrefetchResponse(k, BOOLEAN)
    \/ \E k \in 1..Len(tasks) : SaveResponse(k)

SpecReplenish == Init /\ [][NextReplenish]_vars

\* the suspended backgroundPrefetch a fetchNextImage leaves behind
BackgroundTask ==
    Task("backgroundPrefetch", "batch", NoImage, <<>>, FALSE, 0, <<>>)

(* C30: advance (fetchNextImage with a non-empty queue) makes the popped   *)
(* image the current image and returns without waiting for the             *)
(* replenishment (it leaves no request of its own in flight and isLoading  *)
(* false); when the queue after the pop is shorter than 5 and no prefetch  *)
(* is in progress, a background replenishment has been started, and        *)
(* otherwise none.                                                         *)
C30_AdvanceDoesNotWait ==
    [][(Len(imageQueue) > 0 /\ FetchNextImageCall) =>
          /\ currentImage' = Head(imageQueue)
          /\ imageQueue' = Tail(imageQueue)
          /\ ~isLoading'
          /\ IF Len(imageQueue') < PREFETCH_THRESHOLD /\ ~isPrefetching
             THEN /\ tasks' = Append(tasks, BackgroundTask)
                  /\ isPrefetching'
             ELSE /\ tasks' = tasks
                  /\ isPrefetching' = isPrefetching]_vars

\* an advance has started a replenishment that runs on while the popped
\* image is shown
C30_Witness ==
    /\ currentImage = 2
    /\ ~isLoading
    /\ isPrefetching
    /\ tasks = <<BackgroundTask>>
    /\ imageQueue = <<>>

----------------------------------------------------------------------------
(* C31: after reset() the prefetch queue and the blob cache stay empty     *)
(* until the next fetchNextImage call, also when a prefetch was in flight  *)
(* at the reset: its late completion neither fills the queue nor adds a    *)
(* blob to the cache.                                                      *)

\* the store is as reset() left it and fetchNextImage has not been called
\* since: isInitialLoad is set again only by reset() and by
\* initializePrefetch, which clears it when it ends
ResetAndIdle ==
    /\ isInitialLoad
    /\ currentImage = NoImage
    /\ imageQueue = <<>>
    /\ prefetchedImages = {}
    /\ \A k \in 1..Len(tasks) : tasks[k].kind # "initializePrefetch"

\* a request of the backgroundPrefetch suspended as task k completes
BackgroundResponse(k) ==
    \/ BackgroundBatchDone(k, ServerBatch(PREFETCH_SIZE))
    \/ BackgroundBatchDone(k, <<>>)
    \/ \E ok \in BOOLEAN : BackgroundBlobDone(k, ok)

C31_ResetStaysEmpty ==
    [][\A k \in 1..Len(tasks) :
         (ResetAndIdle /\ BackgroundResponse(k))
             => imageQueue' = <<>> /\ prefetchedImages' = {}]_vars

----------------------------------------------------------------------------
(* The prefetch pipeline when every request eventually completes:          *)
(* fetchNextImage is called at any time, also while a prefetch is in       *)
(* progress, and the request the longest-suspended call awaits gets its    *)
(* response, or its failure, in the end. A suspended call only moves       *)
(* towards the front of tasks, so every call gets there.                   *)

NextPipeline ==
    \/ /\ Len(tasks) < MaxTasks
       /\ Len(history) < MaxHistLen
       /\ FetchNextImageCall
       /\ UNCHANGED uiVars
    \/ \E k \in 1..Len(tasks) : PrefetchResponse(k, BOOLEAN)

\* the request of the longest-suspended call completes or fails
OldestResponds ==
    /\ tasks # <<>>
    /\ PrefetchResponse(1, BOOLEAN)

SpecPipelineLive ==
    /\ Init
    /\ [][NextPipeline]_vars
    /\ WF_vars(OldestResponds)

(* C32: when every request eventually completes, a store that is           *)
(* prefetching eventually is not: every prefetch that sets isPrefetching   *)
(* clears it in the end, whichever batch and blob requests fail.           *)
C32_PrefetchingEnds == isPrefetching ~> ~isPrefetching

\* a prefetch has ended with the flag cleared although the blob of an
\* image it queued could not be loaded
C32_Witness ==
    /\ ~isPrefetching
    /\ PrefetchesInProgress = {}
    /\ currentImage # NoImage
    /\ \E j \in 1..Len(imageQueue) : imageQueue[j] \notin prefetchedImages

----------------------------------------------------------------------------
(* C33: during a resize drag the edges opposite to the dragged handle stay *)
(* anchored: for every handle and every pointer position, the anchor edges *)
(* of the working box (the right and bottom edges for "tl", the right edge *)
(* for "l") keep the coordinates they had before the move, so that the     *)
(* least extent is enforced by clamping the moving edge only.              *)

\* the edges of the working box the handle leaves alone
AnchorsLeft(h) == h \in {"tr", "br", "r"}
AnchorsRight(h) == h \in {"tl", "bl", "l"}
AnchorsTop(h) == h \in {"bl", "br", "b"}
AnchorsBottom(h) == h \in {"tl", "tr", "t"}

C33_ResizeAnchorsStay ==
    [][\A p \in ResizePoints :
         (Resizing /\ MouseMoveTo(p)) =>
             /\ AnchorsLeft(dragHandle) => dragBox'.x = dragBox.x
             /\ AnchorsRight(dragHandle) =>
                    Plus(dragBox'.x, dragBox'.w) = Plus(dragBox.x, dragBox.w)
             /\ AnchorsTop(dragHandle) => dragBox'.y = dragBox.y
             /\ AnchorsBottom(dragHandle) =>
                    Plus(dragBox'.y, dragBox'.h)
                        = Plus(dragBox.y, dragBox.h)]_vars

----------------------------------------------------------------------------
(* The editing of one image on the canvas and beside it: on image 1 the    *)
(* user draws a box, selects it, drags its handles more than once, deletes *)
(* it with the Delete key or with the button of the annotation list, and   *)
(* clicks the undo and redo buttons of the toolbar.                        *)

\* the handles are grabbed while at most MaxCanvasEdits + 1 snapshots exist
MayResize == Len(history) <= MaxCanvasEdits + 1

\* the delete button of an item of the annotation list
RemoveClicked(id) ==
    /\ Shown
    /\ RemoveAnnotation(id)
    /\ UNCHANGED uiVars

\* the undo and the redo button of the toolbar; a disabled button takes no
\* click
UndoClicked ==
    /\ Shown
    /\ canUndo
    /\ Undo
    /\ UNCHANGED uiVars
RedoClicked ==
    /\ Shown
    /\ canRedo
    /\ Redo
    /\ UNCHANGED uiVars

\* the image points of the slice: two corners of the example box
EditPoints == {<<100, 100>>, <<300, 400>>}

\* the handles the user grabs, by their place in the array of getHandles:
\* the top-left and the bottom-right one
EditHandles == {1, 5}

NextEdit ==
    \/ /\ tasks = <<>>
       /\ categories = <<>>
       /\ message = ""
       /\ LoadData
    \/ \E k \in 1..Len(tasks) : LoadCategoriesDone(k, DatasetCategories)
    \/ \E k \in 1..Len(tasks) : ViewPrefetchResponse(k, {TRUE})
    \/ \E id \in ImageIds : ImageOnload(id, 800, 600)
    \/ /\ PointerIdle
       /\ selectedCategory = NoCategory
       /\ \E i \in 1..Len(categories) : selectCategory(categories[i])
    \/ /\ PointerIdle
       /\ canvasMode = "annotate"
       /\ canvasImage # NoImage
       /\ tasks = <<>>
       /\ \E p \in EditPoints :
              /\ Len(history) = 1 \/ SelectsAt(p)
              /\ MouseDownAt(p)
    \/ /\ PointerIdle
       /\ canvasMode = "annotate"
       /\ MayResize
       /\ \E i \in EditHandles \cap 1..Len(ScreenHandles) :
              HandleMouseDown(ScreenHandles[i].x, ScreenHandles[i].y)
    \/ /\ ~PointerIdle
       /\ \E p \in EditPoints : MouseMoveTo(p)
    \/ /\ ~PointerIdle
       /\ MouseUpNow
    \/ /\ PointerIdle
       /\ MayDelete
       /\ \E key \in {"Delete", "Backspace"} : HandleKeyDown(key)
    \/ /\ PointerIdle
       /\ MayDelete
       /\ \E k \in 1..Len(annotations) : RemoveClicked(annotations[k].id)
    \/ /\ PointerIdle
       /\ UndoClicked
    \/ /\ PointerIdle
       /\ RedoClicked

SpecEdit == Init /\ [][NextEdit]_vars

----------------------------------------------------------------------------
(* C34: whenever a resize drag starts, the handle hit-test and the working *)
(* copy of the drag are computed from the geometry of the selected         *)
(* annotation as the annotation set stores it: the initial working box is  *)
(* the pixel box of the stored annotation with the selected id, also when  *)
(* that annotation was resized, undone or redone since it was selected.    *)

\* a mouse-down starts a resize drag
ResizeStarts == ~isDragging /\ isDragging'

C34_ResizeStartsFromStored ==
    [][ResizeStarts =>
          \E k \in 1..Len(annotations) :
              /\ annotations[k].id = selectedAnnotation.id
              /\ dragBox' = PixelBox(annotations[k])]_vars

----------------------------------------------------------------------------
(* C35: whenever an annotation is selected on the canvas, an annotation    *)
(* with that id is in the current annotation set: the selection never      *)
(* dangles, after any sequence of select, draw, resize, Delete key,        *)
(* removal in the annotation list, undo and redo.                          *)
C35_SelectionNeverDangles ==
    selectedAnnotation # NoAnnotation
        => \E k \in 1..Len(annotations) :
               annotations[k].id = selectedAnnotation.id

----------------------------------------------------------------------------
(* The pointer of the canvas with more than one button: on image 1 the     *)
(* buttons go down and up in any order, so that a pointer-down may follow  *)
(* a pointer-down, while the user moves the pointer, leaves the canvas,    *)
(* holds and releases the space bar and toggles the mode with "v" and "h". *)

\* a canvas whose mouseleave has no handler
HandleMouseLeaveIgnored(t) == UNCHANGED vars

\* @mouseleave="handleMouseUp" of the canvas element, at clock value t
HandleMouseLeave(t) == HandleMouseUp(t)

\* the pointer leaves the canvas
MouseLeaveNow == HandleMouseLeave(now + 1)

\* the image is drawn and no request is in flight
Settled == canvasImage # NoImage /\ tasks = <<>>

\* a pan goes on while the viewport is within its bounds and the image has
\* not been moved to the left
MayPan == isPanning => (InBounds /\ Leq(Zero, offsetX))

NextPointer ==
    \/ /\ tasks = <<>>
       /\ categories = <<>>
       /\ message = ""
       /\ LoadData
    \/ \E k \in 1..Len(tasks) : LoadCategoriesDone(k, DatasetCategories)
    \/ \E k \in 1..Len(tasks) : ViewPrefetchResponse(k, {TRUE})
    \/ \E id \in ImageIds : ImageOnload(id, 800, 600)
    \/ /\ PointerIdle
       /\ selectedCategory = NoCategory
       /\ categories # <<>>
       /\ selectCategory(categories[1])
    \/ /\ Settled
       /\ \E key \in {"v", "h"} : handleKeydown(key, FALSE, FALSE, "BODY")
    \/ /\ Settled
       /\ canvasMode = "annotate"
       /\ Len(history) = 1
       /\ HandleKeyDown("Space")
    \/ /\ Settled
       /\ spacePressed
       /\ HandleKeyUp("Space")
    \/ /\ Settled
       /\ Len(history) = 1 \/ (PointerIdle /\ MayEdit)
       /\ \E p \in EditPoints : MouseDownAt(p)
    \/ /\ PointerIdle
       /\ canvasMode = "annotate"
       /\ MayEdit
       /\ \E i \in EditHandles \cap 1..Len(ScreenHandles) :
              HandleMouseDown(ScreenHandles[i].x, ScreenHandles[i].y)
    \/ /\ Settled
       /\ MayPan
       /\ \E p \in EditPoints : MouseMoveTo(p)
    \/ /\ Settled
       /\ MouseUpNow
    \/ /\ Settled
       /\ MouseLeaveNow

SpecPointer == Init /\ [][NextPointer]_vars

----------------------------------------------------------------------------
(* C36: the interaction state machine is in exactly one of Idle, Drawing,  *)
(* Panning and ResizingSelected: at most one of the flags isDrawing,       *)
(* isDragging and isPanning is true in every reachable state, for every    *)
(* sequence of pointer-down, move, up and leave, key and mode-toggle       *)
(* events, two pointer-downs without a pointer-up in between included.     *)
C36_OneInteractionState ==
    /\ ~(isDrawing /\ isDragging)
    /\ ~(isDrawing /\ isPanning)
    /\ ~(isDragging /\ isPanning)

----------------------------------------------------------------------------
(* C37: a pointer-down is interpreted by strict priority, with exactly one *)
(* outcome per event: pan (the mode is "pan" or the space bar is held),    *)
(* else resize (a handle of the selected annotation is within the          *)
(* tolerance), else select (an annotation box is under the pointer: the    *)
(* machine stays Idle, and the moves and the pointer-up that follow emit   *)
(* no add and no update), else draw (only if a category is selected),      *)
(* else nothing, with no change of state.                                  *)

\* the screen points the pointer goes down at: those of the image points
\* and of the handles the user grabs
DownPoints ==
    {ToScreen(p) : p \in EditPoints}
        \cup {ScreenHandles[i] : i \in EditHandles \cap 1..Len(ScreenHandles)}

\* the outcomes of a pointer-down at the screen point s
PansAt(s) ==
    /\ isPanning'
    /\ startPoint' = s
    /\ UNCHANGED <<isDrawing, isDragging, selectedAnnotation, currentBox,
                   dragHandle, dragBox>>
ResizesAt(s) ==
    /\ isDragging'
    /\ dragHandle' = GetClickedHandle(s.x, s.y)
    /\ dragBox' # NoBox
    /\ UNCHANGED <<isDrawing, isPanning, selectedAnnotation, currentBox>>
SelectsNow(s) ==
    /\ selectedAnnotation' = GetAnnotationAt(s.x, s.y)
    /\ UNCHANGED <<isDrawing, isDragging, isPanning, startPoint, currentBox,
                   dragHandle, dragBox>>
    /\ PointerIdle => PointerIdle'
DrawsAt(s) ==
    /\ isDrawing'
    /\ selectedAnnotation' = NoAnnotation
    /\ startPoint' = ScreenToImage(s.x, s.y)
    /\ currentBox' = [x |-> startPoint'.x, y |-> startPoint'.y,
                      w |-> Zero, h |-> Zero]
    /\ UNCHANGED <<isDragging, isPanning, dragHandle, dragBox>>

C37_PointerDownPriority ==
    [][/\ vars' # vars
       /\ \A s \in DownPoints :
            (Shown /\ HandleMouseDown(s.x, s.y)) =>
                /\ IF canvasMode = "pan" \/ spacePressed
                   THEN PansAt(s)
                   ELSE IF GetClickedHandle(s.x, s.y) # NoHandle
                   THEN ResizesAt(s)
                   ELSE IF GetAnnotationAt(s.x, s.y) # NoAnnotation
                   THEN SelectsNow(s)
                   ELSE IF selectedCategory # NoCategory
                   THEN DrawsAt(s)
                   ELSE UNCHANGED vars
                /\ UNCHANGED <<storeVars, viewVars, viewportVars>>
       /\ (PointerIdle /\ (MouseUpNow \/ \E p \in EditPoints : MouseMoveTo(p)))
            => /\ UNCHANGED undoVars
               /\ PointerIdle']_vars

\* the pointer went down on the top-left handle of the selected annotation,
\* a corner of its box: the resize was started, not a selection
C37_Witness ==
    /\ isDragging
    /\ ~isPanning
    /\ ~isDrawing
    /\ dragHandle = "tl"
    /\ selectedAnnotation # NoAnnotation
    /\ startPoint = [x |-> PixelBox(selectedAnnotation).x,
                     y |-> PixelBox(selectedAnnotation).y]
    /\ dragBox = PixelBox(selectedAnnotation)

----------------------------------------------------------------------------
(* C38: a complete pan drag (a pointer-down in pan mode or with the space  *)
(* bar held, any moves, a pointer-up) changes only the offset of the view, *)
(* by exactly the total displacement of the pointer on the screen: scale,  *)
(* selection and annotation set stay as they are and no add, update or     *)
(* delete is emitted. The offset minus the last pointer position is the    *)
(* same after the pointer-down and after every move, so that the offset    *)
(* has changed by the last pointer position minus the first.               *)

\* the pointer-down starts a pan
PanStarts == canvasMode = "pan" \/ spacePressed

C38_PanChangesOnlyOffset ==
    [][/\ \A p \in EditPoints :
            (PanStarts /\ MouseDownAt(p)) =>
                /\ isPanning'
                /\ startPoint' = ToScreen(p)
                /\ UNCHANGED <<viewportVars, selectedAnnotation, storeVars>>
       /\ \A p \in EditPoints :
            (isPanning /\ MouseMoveTo(p)) =>
                /\ Minus(offsetX', startPoint'.x)
                       = Minus(offsetX, startPoint.x)
                /\ Minus(offsetY', startPoint'.y)
                       = Minus(offsetY, startPoint.y)
                /\ startPoint' = ToScreen(p)
                /\ isPanning'
                /\ UNCHANGED <<scale, selectedAnnotation, storeVars>>
       /\ (isPanning /\ MouseUpNow) =>
                /\ ~isPanning'
                /\ UNCHANGED <<viewportVars, selectedAnnotation, storeVars>>
      ]_vars

\* a pan from the screen point of (100,100) to that of (300,400) has moved
\* the fitted image of 1920 x 1080 by 75 pixels to the right and has ended,
\* with the box that was drawn still selected
C38_Witness ==
    /\ PointerIdle
    /\ canvasMode = "pan"
    /\ scale = Rat(3, 8)
    /\ offsetX = Num(115)
    /\ annotations # <<>>
    /\ selectedAnnotation = annotations[1]
    /\ startPoint.x = Rat(305, 2)

----------------------------------------------------------------------------
(* C39: in every interaction state (Idle, Drawing, Panning,                *)
(* ResizingSelected) a pointer-leave has exactly the effect of a           *)
(* pointer-up in that state: the same resulting state and the same add or  *)
(* update emitted, or none.                                                *)
C39_LeaveIsUp ==
    [][/\ MouseLeaveNow => MouseUpNow
       /\ MouseUpNow => MouseLeaveNow
       /\ (isDrawing /\ ~isPanning /\ ~isDragging /\ MouseLeaveNow)
            => ~isDrawing' /\ currentBox' = NoBox
       /\ (isDragging /\ ~isPanning /\ MouseLeaveNow)
            => ~isDragging' /\ dragBox' = NoBox
       /\ (isPanning /\ MouseLeaveNow) => ~isPanning'
       /\ (PointerIdle /\ MouseLeaveNow) => UNCHANGED vars]_vars


\* the pointer left the canvas in the middle of the draw of the example
\* box: the draw has ended and the box was added, as a pointer-up adds it
C39_Witness ==
    /\ PointerIdle
    /\ currentBox = NoBox
    /\ selectedAnnotation = NoAnnotation
    /\ Len(annotations) = 1
    /\ PixelBox(annotations[1]) = [x |-> Num(100), y |-> Num(100),
                                   w |-> Num(200), h |-> Num(300)]
    /\ Len(history) = 2
    /\ now = 1

----------------------------------------------------------------------------
(* C40: the annotations of the live annotation set have pairwise distinct  *)
(* ids in every reachable state: the provisional id that addAnnotation     *)
(* gives differs from the id of every other annotation of the set, so that *)
(* an update or a removal by id addresses exactly one annotation.          *)
C40_AnnotationIdsDistinct ==
    \A j, k \in 1..Len(annotations) :
        annotations[j].id = annotations[k].id => j = k

====
